---------------------------- MODULE Spec2Model ----------------------------
(***************************************************************************)
(* A model of netedit's GNEGeometry.cpp: the Geometry class (a polyline    *)
(* with cached per-segment rotations and lengths), the DottedGeometryColor *)
(* alternator, the DottedGeometry contour, its extremes and its drawing,   *)
(* the dotted-contour draw passes over a shape and over an edge, the       *)
(* Lane2laneConnection map, the circle table with angleLookup, and         *)
(* adjustStartPosGeometricPath.                                            *)
(*                                                                         *)
(* Numbers.  Coordinates and arclength offsets are integers in units of    *)
(* 0.05 m, so POSITION_EPS (0.1 m) is 2 units and the literal -1 of the    *)
(* code (the "unset" trim position) is -20 units.  A cached length is kept *)
(* exactly, as sgn * sqrt(sq); a rotation is kept exactly, as the reduced  *)
(* pair <<y, x>> that stands for atan2(y, x).  Floating point rounding is  *)
(* not modelled.                                                           *)
(***************************************************************************)
EXTENDS Integers, Sequences, FiniteSets, TLC

VARIABLES
    myShape,            \* Geometry::myShape
    myShapeRotations,   \* Geometry::myShapeRotations
    myShapeLengths,     \* Geometry::myShapeLengths
    baseOp,             \* the last Geometry operation other than scaleGeometry
    argShape,           \* the polyline that operation was given
    argOffsets,         \* the two offsets that operation was given
    subpart,            \* what that operation passed to getSubpart2D
    atOffset,           \* what that operation passed to positionAtOffset
    scaleBase,          \* the caches as they were before the scaleGeometry calls made since
    scaleFactors,       \* the factors of the scaleGeometry calls made since
    mySettings,         \* DottedGeometryColor::mySettings.dottedContourSettings
    myColorFlag,        \* DottedGeometryColor::myColorFlag
    called,             \* the last operation on the alternator, and what it returned
    earlier,            \* the operation on the alternator before that one
    run,                \* the colours of the latest getColor calls made in a row with one type
    ref,                \* the alternator that is spared the calls with an unrecognized type
    myDottedGeometrySegments,   \* DottedGeometry::myDottedGeometrySegments
    myWidth,            \* DottedGeometry::myWidth
    built,              \* the last operation that built the DottedGeometry, and its sampling
    drawn,              \* the last drawDottedGeometry call and the primitives it emitted
    myConnectionsMap,   \* Lane2laneConnection::myConnectionsMap
    outgoingEdges,      \* the lanes of the outgoing edges of the junction myFromLane leads to
    updated,            \* the last updateLane2laneConnection call
    read,               \* the last exist or getLane2laneGeometry call and its outcome
    myCircleCoords,     \* GNEGeometry::myCircleCoords
    looked,             \* the latest angleLookup calls and the indices they returned
    circle,             \* the last getVertexCircleAroundPosition call and what it returned
    extremes,           \* the last DottedGeometry built from a top and a bottom one
    pass,               \* the last dotted-contour draw pass over a path or an edge
    adjusted            \* the last adjustStartPosGeometricPath call

geomVars == <<myShape, myShapeRotations, myShapeLengths, baseOp, argShape,
              argOffsets, subpart, atOffset, scaleBase, scaleFactors>>

colorVars == <<mySettings, myColorFlag, called, earlier, run, ref>>

dottedVars == <<myDottedGeometrySegments, myWidth, built, drawn>>

laneVars == <<myConnectionsMap, outgoingEdges, updated, read>>

circleVars == <<myCircleCoords, looked, circle>>

contourVars == <<extremes, pass, adjusted>>

vars == <<geomVars, colorVars, dottedVars, laneVars, circleVars, contourVars>>

---------------------------------------------------------------------------
(* Bounds of the model *)

MaxLen == 3

MaxScales == 2

\* the getColor calls in a row that are remembered
MaxRun == 3

---------------------------------------------------------------------------
(* Arithmetic *)

Abs(n) == IF n < 0 THEN -n ELSE n

Sign(n) == IF n < 0 THEN -1 ELSE IF n = 0 THEN 0 ELSE 1

Max(a, b) == IF a >= b THEN a ELSE b

RECURSIVE GCD(_, _)
GCD(a, b) == IF b = 0 THEN a ELSE GCD(b, a % b)

\* the largest r in lo..hi with r * r <= n
RECURSIVE SqrtBetween(_, _, _)
SqrtBetween(n, lo, hi) ==
    IF lo >= hi THEN lo
    ELSE LET mid == (lo + hi + 1) \div 2
         IN  IF mid * mid <= n THEN SqrtBetween(n, mid, hi) ELSE SqrtBetween(n, lo, mid - 1)

\* sqrt rounded down to the unit
ISqrt(n) == IF n <= 0 THEN 0 ELSE SqrtBetween(n, 0, IF n > 46340 THEN 46340 ELSE n)

\* atan2(y, x) * 180 / M_PI, kept as the direction it stands for; atan2(0, 0) = 0 = atan2(0, 1)
Atan2(y, x) ==
    IF x = 0 /\ y = 0 THEN <<0, 1>>
    ELSE LET g == GCD(Abs(y), Abs(x)) IN <<y \div g, x \div g>>

\* the number of degrees of a rotation that is a multiple of 45 degrees
Degrees(a) ==
    CASE a = <<0, 1>> -> 0
      [] a = <<1, 1>> -> 45
      [] a = <<1, 0>> -> 90
      [] a = <<1, -1>> -> 135
      [] a = <<0, -1>> -> 180
      [] a = <<-1, -1>> -> -135
      [] a = <<-1, 0>> -> -90
      [] a = <<-1, 1>> -> -45
      [] OTHER -> 1000

\* the double sqrt(n), n >= 0
Root(n) == [sgn |-> IF n = 0 THEN 0 ELSE 1, sq |-> n]

\* the double n
Real(n) == [sgn |-> Sign(n), sq |-> n * n]

\* a scale factor num / den
Ratio(n, d) == [num |-> n, den |-> d]

\* v * k is a value of the model
Exact(v, k) == (v * k.num) % k.den = 0

\* the integer v * k
Mul(v, k) == (v * k.num) \div k.den

ExactLength(l, k) == (l.sq * k.num * k.num) % (k.den * k.den) = 0

\* the double l * k
MulLength(l, k) ==
    LET n == (l.sq * k.num * k.num) \div (k.den * k.den)
    IN  [sgn |-> IF n = 0 THEN 0 ELSE l.sgn * Sign(k.num), sq |-> n]

---------------------------------------------------------------------------
(* Positions and the path utility (PositionVector) *)

POSITION_EPS == 2

\* the literal -1 (metres) the trim positions are compared with
Unset == -20

\* Position::INVALID
INVALID == <<-1024, -1024, -1024>>

X(p) == p[1]

Y(p) == p[2]

Z(p) == p[3]

\* Position::distanceTo2D, exact
distanceTo2D(a, b) ==
    Root((X(a) - X(b)) * (X(a) - X(b)) + (Y(a) - Y(b)) * (Y(a) - Y(b)))

\* Position::distanceTo2D rounded down to the unit, as the arclength queries use it
Dist2D(a, b) ==
    ISqrt((X(a) - X(b)) * (X(a) - X(b)) + (Y(a) - Y(b)) * (Y(a) - Y(b)))

\* Position::distanceTo rounded down to the unit
Dist3D(a, b) ==
    ISqrt((X(a) - X(b)) * (X(a) - X(b)) + (Y(a) - Y(b)) * (Y(a) - Y(b))
          + (Z(a) - Z(b)) * (Z(a) - Z(b)))

RECURSIVE SumTo(_, _)
SumTo(f, n) == IF n = 0 THEN 0 ELSE f[n] + SumTo(f, n - 1)

\* PositionVector::length2D
length2D(shape) ==
    IF Len(shape) < 2 THEN 0
    ELSE SumTo([i \in 1..(Len(shape) - 1) |-> Dist2D(shape[i], shape[i + 1])], Len(shape) - 1)

\* PositionVector::length
length(shape) ==
    IF Len(shape) < 2 THEN 0
    ELSE SumTo([i \in 1..(Len(shape) - 1) |-> Dist3D(shape[i], shape[i + 1])], Len(shape) - 1)

\* PositionVector::positionAtOffset(p1, p2, pos, lateralOffset) on one segment of
\* length d (interpolated, rounded down to the unit)
OnSegment(a, b, d, pos, lateralOffset) ==
    IF pos < 0 \/ d < pos THEN INVALID
    ELSE IF lateralOffset /= 0 /\ d = 0 THEN INVALID
    ELSE LET t == IF d = 0 THEN 0 ELSE pos
             n == IF d = 0 THEN 1 ELSE d
             sx == IF lateralOffset = 0 THEN 0 ELSE ((Y(a) - Y(b)) * (-lateralOffset)) \div n
             sy == IF lateralOffset = 0 THEN 0 ELSE ((X(b) - X(a)) * (-lateralOffset)) \div n
         IN  << X(a) + ((X(b) - X(a)) * t) \div n + sx,
                Y(a) + ((Y(b) - Y(a)) * t) \div n + sy,
                Z(a) + ((Z(b) - Z(a)) * t) \div n >>

\* the segment of shape (at least two points) that holds arclength pos, from segment i
\* on with seen the arclength before it: <<i, pos - seen>>, or <<0, 0>> past the end;
\* dim = 3 measures with distanceTo, dim = 2 with distanceTo2D
RECURSIVE SegmentAt(_, _, _, _, _)
SegmentAt(shape, dim, i, seen, pos) ==
    IF i >= Len(shape) THEN <<0, 0>>
    ELSE LET d == IF dim = 3 THEN Dist3D(shape[i], shape[i + 1])
                  ELSE Dist2D(shape[i], shape[i + 1])
         IN  IF seen + d > pos THEN <<i, pos - seen>>
             ELSE SegmentAt(shape, dim, i + 1, seen + d, pos)

\* PositionVector::positionAtOffset
positionAtOffset(shape, pos, lateralOffset) ==
    IF Len(shape) = 0 THEN INVALID
    ELSE IF Len(shape) = 1 THEN shape[1]
    ELSE LET at == SegmentAt(shape, 3, 1, 0, pos)
             n == Len(shape)
         IN  IF at[1] > 0
             THEN OnSegment(shape[at[1]], shape[at[1] + 1],
                            Dist3D(shape[at[1]], shape[at[1] + 1]), at[2], lateralOffset)
             ELSE IF lateralOffset = 0 THEN shape[n]
             ELSE OnSegment(shape[n - 1], shape[n], Dist3D(shape[n - 1], shape[n]),
                            Dist3D(shape[n - 1], shape[n]), lateralOffset)

\* PositionVector::positionAtOffset2D
positionAtOffset2D(shape, pos) ==
    IF Len(shape) = 0 THEN INVALID
    ELSE IF Len(shape) = 1 THEN shape[1]
    ELSE LET at == SegmentAt(shape, 2, 1, 0, pos)
         IN  IF at[1] > 0
             THEN OnSegment(shape[at[1]], shape[at[1] + 1],
                            Dist2D(shape[at[1]], shape[at[1] + 1]), at[2], 0)
             ELSE shape[Len(shape)]

\* PositionVector::rotationDegreeAtOffset: the tangent of the segment that holds pos
rotationDegreeAtOffset(shape, pos) ==
    IF Len(shape) < 2 THEN Atan2(0, 1)
    ELSE LET at == SegmentAt(shape, 3, 1, 0, pos)
             i == IF at[1] > 0 THEN at[1] ELSE Len(shape) - 1
         IN  Atan2(X(shape[i + 1]) - X(shape[i]), Y(shape[i]) - Y(shape[i + 1]))

\* Position::almostSame
almostSame(a, b) == Dist3D(a, b) < POSITION_EPS

\* PositionVector::push_back_noDoublePos
push_back_noDoublePos(shape, p) ==
    IF Len(shape) = 0 \/ ~almostSame(shape[Len(shape)], p) THEN Append(shape, p) ELSE shape

\* PositionVector::push_front_noDoublePos
push_front_noDoublePos(shape, p) ==
    IF Len(shape) = 0 \/ ~almostSame(shape[1], p) THEN <<p>> \o shape ELSE shape

\* getSubpart2D's first loop ("skip previous segments"): <<i, seen>> when it ends
RECURSIVE SkipSegments(_, _, _, _)
SkipSegments(shape, i, seen, beginOffset) ==
    IF i < Len(shape) /\ seen + Dist2D(shape[i], shape[i + 1]) < beginOffset
    THEN SkipSegments(shape, i + 1, seen + Dist2D(shape[i], shape[i + 1]), beginOffset)
    ELSE <<i, seen>>

\* getSubpart2D's second loop ("append segments in between")
RECURSIVE AppendSegments(_, _, _, _, _)
AppendSegments(shape, ret, i, seen, endOffset) ==
    IF i < Len(shape) /\ seen + Dist2D(shape[i], shape[i + 1]) < endOffset
    THEN AppendSegments(shape, push_back_noDoublePos(ret, shape[i + 1]), i + 1,
                        seen + Dist2D(shape[i], shape[i + 1]), endOffset)
    ELSE ret

\* PositionVector::getSubpart2D
getSubpart2D(shape, beginOffset, endOffset) ==
    IF Len(shape) = 0 THEN << >>
    ELSE LET begPos == IF beginOffset > POSITION_EPS
                       THEN positionAtOffset2D(shape, beginOffset) ELSE shape[1]
             endPos == IF endOffset < length2D(shape) - POSITION_EPS
                       THEN positionAtOffset2D(shape, endOffset) ELSE shape[Len(shape)]
             at == SkipSegments(shape, 1, 0, beginOffset)
             mid == AppendSegments(shape, <<begPos>>, at[1], at[2], endOffset)
             ret == push_back_noDoublePos(mid, endPos)
         IN  IF Len(ret) = 1 THEN Append(ret, endPos) ELSE ret

\* PositionVector::move2side: every point moved to the side of the segment that leaves
\* it (the last point: of the segment that reaches it)
move2side(shape, amount) ==
    IF Len(shape) < 2 \/ amount = 0 THEN shape
    ELSE [i \in 1..Len(shape) |->
            LET j == IF i < Len(shape) THEN i ELSE i - 1
                a == shape[j]
                b == shape[j + 1]
                d == Dist2D(a, b)
            IN  IF d = 0 THEN shape[i]
                ELSE << X(shape[i]) - ((Y(a) - Y(b)) * amount) \div d,
                        Y(shape[i]) - ((X(b) - X(a)) * amount) \div d,
                        Z(shape[i]) >>]

\* factor times every coordinate of shape, taken from the reference point c, is a value
\* of the model
ExactShape(shape, factor, c) ==
    \A i \in 1..Len(shape) : \A j \in 1..3 : Exact(shape[i][j] - c[j], factor)

\* PositionVector::scaleRelative, c the reference point (its centroid)
scaleRelative(shape, factor, c) ==
    [i \in 1..Len(shape) |-> [j \in 1..3 |-> c[j] + Mul(shape[i][j] - c[j], factor)]]

---------------------------------------------------------------------------
(* GNEGeometry::calculateRotation, calculateLength *)

\* calculateRotation as the angle of the mathematical convention, atan2(dy, dx)
calculateRotationMath(first, second) ==
    Atan2(Y(second) - Y(first), X(second) - X(first))

\* calculateRotation with the y difference taken the other way round
calculateRotationNorth(first, second) ==
    Atan2(X(second) - X(first), Y(second) - Y(first))

calculateRotation(first, second) ==
    Atan2(X(second) - X(first), Y(first) - Y(second))

calculateLength(first, second) == distanceTo2D(first, second)

---------------------------------------------------------------------------
(* GNEGeometry::Geometry.  A Geometry value is a record of its three        *)
(* members; every method is the function from the object before the call   *)
(* and the arguments to the object after it.                               *)

Geom == [shape |-> myShape, rotations |-> myShapeRotations, lengths |-> myShapeLengths]

EmptyGeometry == [shape |-> << >>, rotations |-> << >>, lengths |-> << >>]

\* clearGeometry without myShapeRotations.clear()
clearGeometryKeepsRotations(g) == [shape |-> << >>, rotations |-> g.rotations, lengths |-> << >>]

clearGeometry(g) == [shape |-> << >>, rotations |-> << >>, lengths |-> << >>]

calculateShapeRotationsAndLengths(g) ==
    LET numberOfSegments == Len(g.shape) - 1
    IN  [shape |-> g.shape,
         rotations |-> IF numberOfSegments >= 0
                       THEN [i \in 1..numberOfSegments |->
                                calculateRotation(g.shape[i], g.shape[i + 1])]
                       ELSE << >>,
         lengths |-> IF numberOfSegments >= 0
                     THEN [i \in 1..numberOfSegments |->
                              calculateLength(g.shape[i], g.shape[i + 1])]
                     ELSE << >>]

\* Geometry(shape)
GeometryShape(shape) ==
    calculateShapeRotationsAndLengths([EmptyGeometry EXCEPT !.shape = shape])

\* Geometry(shape, shapeRotations, shapeLengths)
GeometryCaches(shape, shapeRotations, shapeLengths) ==
    [shape |-> shape, rotations |-> shapeRotations, lengths |-> shapeLengths]

\* updateGeometry(shape)
updateGeometry(g, shape) ==
    LET c == clearGeometry(g)
    IN  calculateShapeRotationsAndLengths([c EXCEPT !.shape = shape])

\* the position taken as it is given
unclampedPosOverShape(posOverShape, shapeLength) == posOverShape

\* the arclength updateGeometry(shape, posOverShape, lateralOffset) asks the path for
clampPosOverShape(posOverShape, shapeLength) ==
    IF posOverShape < 0 THEN 0
    ELSE IF posOverShape > shapeLength THEN shapeLength
    ELSE posOverShape

\* updateGeometry(shape, posOverShape, lateralOffset)
updateGeometryPos(g, shape, posOverShape, lateralOffset) ==
    LET c == clearGeometry(g)
        shapeLength == length(shape)
        pos == clampPosOverShape(posOverShape, shapeLength)
    IN  [shape |-> Append(c.shape, positionAtOffset(shape, pos, lateralOffset)),
         rotations |-> Append(c.rotations, rotationDegreeAtOffset(shape, pos)),
         lengths |-> c.lengths]

\* the offsets updateGeometry(shape, starPosOverShape, endPosOverShape, lateralOffset)
\* passes to getSubpart2D: <<starPosOverShape, endPosOverShape>> after its five checks
clampOffsets(starPosOverShape, endPosOverShape, shapeLength) ==
    LET e1 == IF starPosOverShape < 0 THEN 0 ELSE endPosOverShape
        e2 == IF starPosOverShape < 0 THEN shapeLength ELSE e1
        e3 == IF starPosOverShape > (shapeLength - POSITION_EPS)
              THEN shapeLength - POSITION_EPS ELSE e2
        e4 == IF e3 > shapeLength THEN shapeLength ELSE e3
        e5 == IF e4 <= starPosOverShape THEN e4 + POSITION_EPS ELSE e4
    IN  <<starPosOverShape, e5>>

\* updateGeometry(shape, starPosOverShape, endPosOverShape, lateralOffset)
updateGeometryOffsets(g, shape, starPosOverShape, endPosOverShape, lateralOffset) ==
    LET c == clearGeometry(g)
        moved == move2side(shape, lateralOffset)
        w == clampOffsets(starPosOverShape, endPosOverShape, length2D(moved))
    IN  calculateShapeRotationsAndLengths(
            [c EXCEPT !.shape = getSubpart2D(moved, w[1], w[2])])

\* whether updateGeometry(shape, beginTrimPosition, endTrimPosition, ...) trims
trims(beginTrimPosition, endTrimPosition) ==
    (beginTrimPosition /= Unset) \/ (endTrimPosition /= Unset)

\* the offsets updateGeometry(shape, beginTrimPosition, endTrimPosition, ...) passes to
\* getSubpart2D: <<beginTrimPosition, endTrimPosition>> after its five checks
trimOffsets(beginTrimPosition, endTrimPosition, shapeLength) ==
    LET b1 == IF beginTrimPosition < 0 THEN 0 ELSE beginTrimPosition
        e1 == IF endTrimPosition < 0 THEN shapeLength ELSE endTrimPosition
        b2 == IF b1 > (shapeLength - POSITION_EPS) THEN shapeLength - POSITION_EPS ELSE b1
        e2 == IF e1 > shapeLength THEN shapeLength ELSE e1
        e3 == IF e2 <= b2 THEN e2 + POSITION_EPS ELSE e2
    IN  <<b2, e3>>

\* updateGeometry(shape, beginTrimPosition, endTrimPosition, extraFirstPosition,
\* extraLastPosition)
updateGeometryTrim(g, shape, beginTrimPosition, endTrimPosition, extraFirstPosition, extraLastPosition) ==
    LET c == clearGeometry(g)
        w == trimOffsets(beginTrimPosition, endTrimPosition, length2D(shape))
        trimmed == getSubpart2D(shape, w[1], w[2])
        withFirst == IF extraFirstPosition /= INVALID
                     THEN push_front_noDoublePos(trimmed, extraFirstPosition) ELSE trimmed
        withLast == IF extraLastPosition /= INVALID
                    THEN push_back_noDoublePos(withFirst, extraLastPosition) ELSE withFirst
    IN  calculateShapeRotationsAndLengths(
            [c EXCEPT !.shape = IF trims(beginTrimPosition, endTrimPosition)
                                THEN withLast ELSE shape])

\* updateSinglePosGeometry(position, rotation)
updateSinglePosGeometry(g, position, rotation) ==
    LET c == clearGeometry(g)
    IN  [shape |-> Append(c.shape, position),
         rotations |-> Append(c.rotations, rotation),
         lengths |-> c.lengths]

\* scaleGeometry without the loop over myShapeLengths
scaleGeometryShapeOnly(g, scale, c) ==
    [shape |-> scaleRelative(g.shape, scale, c),
     rotations |-> g.rotations,
     lengths |-> g.lengths]

\* scaleGeometry that recomputes the caches from the scaled shape
scaleGeometryRecomputes(g, scale, c) ==
    calculateShapeRotationsAndLengths([g EXCEPT !.shape = scaleRelative(g.shape, scale, c)])

\* scaleGeometry(scale); c is the reference point scaleRelative scales from
scaleGeometry(g, scale, c) ==
    [shape |-> scaleRelative(g.shape, scale, c),
     rotations |-> g.rotations,
     lengths |-> [i \in 1..Len(g.lengths) |-> MulLength(g.lengths[i], scale)]]

---------------------------------------------------------------------------
(* GNEGeometry::DottedGeometryColor.  getColor is the function from the      *)
(* settings, the flag before the call and the type to the colour returned    *)
(* and the flag after the call.                                              *)

\* RGBColor constants, as <<red, green, blue>>
BLACK == <<0, 0, 0>>

WHITE == <<255, 255, 255>>

GREEN == <<0, 255, 0>>

MAGENTA == <<255, 0, 255>>

\* RGBColor::changedBrightness: every channel moved by change, kept within 0..255
changedBrightness(color, change) ==
    [i \in 1..3 |-> IF color[i] + change < 0 THEN 0
                    ELSE IF color[i] + change > 255 THEN 255 ELSE color[i] + change]

\* DottedContourType; OTHER stands for every enumerator getColor does not name
RecognizedTypes == {"INSPECT", "FRONT", "GREEN", "MAGENTA"}

ContourTypes == RecognizedTypes \cup {"OTHER"}

\* one of the four branches: the colour for the flag, and the flag flipped
Alternate(colorFlag, first, second) ==
    IF colorFlag THEN [color |-> first, flag |-> FALSE]
    ELSE [color |-> second, flag |-> TRUE]

\* a branch that returns its colour and leaves the flag as it is
Keep(colorFlag, first, second) ==
    [color |-> IF colorFlag THEN first ELSE second, flag |-> colorFlag]

\* getColor with a GREEN branch that does not flip the flag
getColorGreenKeepsFlag(settings, colorFlag, type) ==
    IF type = "INSPECT"
    THEN Alternate(colorFlag, settings.firstInspectedColor, settings.secondInspectedColor)
    ELSE IF type = "FRONT"
    THEN Alternate(colorFlag, settings.firstFrontColor, settings.secondFrontColor)
    ELSE IF type = "GREEN"
    THEN Keep(colorFlag, GREEN, changedBrightness(GREEN, -30))
    ELSE IF type = "MAGENTA"
    THEN Alternate(colorFlag, MAGENTA, changedBrightness(MAGENTA, -30))
    ELSE [color |-> BLACK, flag |-> colorFlag]

\* getColor with a last branch that flips the flag as the others do
getColorAlwaysFlips(settings, colorFlag, type) ==
    IF type = "INSPECT"
    THEN Alternate(colorFlag, settings.firstInspectedColor, settings.secondInspectedColor)
    ELSE IF type = "FRONT"
    THEN Alternate(colorFlag, settings.firstFrontColor, settings.secondFrontColor)
    ELSE IF type = "GREEN"
    THEN Alternate(colorFlag, GREEN, changedBrightness(GREEN, -30))
    ELSE IF type = "MAGENTA"
    THEN Alternate(colorFlag, MAGENTA, changedBrightness(MAGENTA, -30))
    ELSE Alternate(colorFlag, BLACK, BLACK)

getColor(settings, colorFlag, type) ==
    IF type = "INSPECT"
    THEN Alternate(colorFlag, settings.firstInspectedColor, settings.secondInspectedColor)
    ELSE IF type = "FRONT"
    THEN Alternate(colorFlag, settings.firstFrontColor, settings.secondFrontColor)
    ELSE IF type = "GREEN"
    THEN Alternate(colorFlag, GREEN, changedBrightness(GREEN, -30))
    ELSE IF type = "MAGENTA"
    THEN Alternate(colorFlag, MAGENTA, changedBrightness(MAGENTA, -30))
    ELSE [color |-> BLACK, flag |-> colorFlag]

changeColor(colorFlag) == IF colorFlag THEN FALSE ELSE TRUE

\* reset that flips the flag as changeColor does
resetFlips(colorFlag) == IF colorFlag THEN FALSE ELSE TRUE

reset(colorFlag) == TRUE

---------------------------------------------------------------------------
(* GNEGeometry::DottedGeometry.  A DottedGeometry value is a record of its    *)
(* segments and its width; a Segment is a record of its four members.  The   *)
(* settings s are the record of segmentLength and segmentWidth of            *)
(* s.dottedContourSettings.                                                  *)

\* MAXIMUM_DOTTEDGEOMETRYLENGTH, 500.0 (metres)
MAXIMUM_DOTTEDGEOMETRYLENGTH == 500

\* the least integer not below n / d, d > 0
CeilDiv(n, d) == -((-n) \div d)

\* PositionVector::closePolygon: the first point appended unless the last one equals it
closePolygon(shape) ==
    IF Len(shape) = 0 \/ shape[1] = shape[Len(shape)] THEN shape
    ELSE Append(shape, shape[1])

\* PositionVector::resample(maxLength, true): the points at equal steps of at most
\* maxLength (a Ratio) along shape, the last of them the last point of shape; nothing
\* for a step of 0 or a shape shorter than POSITION_EPS
resample(shape, maxLength) ==
    LET len == length2D(shape)
        pieces == CeilDiv(len * maxLength.den, maxLength.num)
    IN  IF maxLength.num = 0 \/ len < POSITION_EPS THEN << >>
        ELSE [k \in 1..(pieces + 1) |->
                 IF k = pieces + 1 THEN shape[Len(shape)]
                 ELSE positionAtOffset2D(shape, ((k - 1) * len) \div pieces)]

\* Segment(newShape)
Segment(newShape) ==
    [shape |-> newShape, rotations |-> << >>, lengths |-> << >>, offset |-> -1]

\* DottedGeometry()
EmptyDottedGeometry == [segments |-> << >>, width |-> 0]

\* the loop that pushes one Segment per pair of consecutive points of shape
rawSegments(shape) ==
    [i \in 1..(Len(shape) - 1) |-> Segment(<<shape[i], shape[i + 1]>>)]

\* the loop that resamples every segment
resampleSegments(segments, segmentLength) ==
    [j \in 1..Len(segments) |->
        [segments[j] EXCEPT !.shape = resample(segments[j].shape, segmentLength)]]

\* DottedGeometry::calculateShapeRotationsAndLengths: it appends to what the segments hold
dottedCalculateShapeRotationsAndLengths(segments) ==
    [j \in 1..Len(segments) |->
        LET segment == segments[j]
            numberOfSegments == Len(segment.shape) - 1
        IN  IF numberOfSegments >= 0
            THEN [segment EXCEPT
                    !.rotations = segment.rotations \o
                        [i \in 1..numberOfSegments |->
                            calculateRotation(segment.shape[i], segment.shape[i + 1])],
                    !.lengths = segment.lengths \o
                        [i \in 1..numberOfSegments |->
                            calculateLength(segment.shape[i], segment.shape[i + 1])]]
            ELSE segment]

\* the shape the constructor and updateDottedGeometry(s, shape, closeShape) work on
closedIfAsked(shape, closeShape) ==
    IF closeShape /\ Len(shape) > 2 THEN closePolygon(shape) ELSE shape

\* the step the constructor resamples shape with (shape closed already); lengths are in
\* units of 0.05 m, 20 to the metre
constructorStep(s, shape) ==
    IF length2D(shape) > 20 * MAXIMUM_DOTTEDGEOMETRYLENGTH
    THEN Ratio(2 * length2D(shape), MAXIMUM_DOTTEDGEOMETRYLENGTH)
    ELSE Ratio(s.segmentLength, 1)

\* the step updateDottedGeometry(s, shape, closeShape) resamples with
updateStep(s, shape) == Ratio(s.segmentLength, 1)

\* the step updateDottedGeometry(s, lane) resamples with
laneStep(s, shape) == Ratio(s.segmentLength, 1)

\* DottedGeometry(s, shape, closeShape)
DottedGeometryShape(s, shape, closeShape) ==
    LET closed == closedIfAsked(shape, closeShape)
    IN  [segments |->
            IF Len(closed) > 1
            THEN dottedCalculateShapeRotationsAndLengths(
                     resampleSegments(rawSegments(closed), constructorStep(s, closed)))
            ELSE << >>,
         width |-> s.segmentWidth]

\* updateDottedGeometry(s, lane), laneShape the shape of the lane
updateDottedGeometryLane(d, s, laneShape) ==
    [segments |-> dottedCalculateShapeRotationsAndLengths(
                      resampleSegments(rawSegments(laneShape), laneStep(s, laneShape))),
     width |-> s.segmentWidth]

\* updateDottedGeometry(s, shape, closeShape)
updateDottedGeometryShape(d, s, shape, closeShape) ==
    LET closed == closedIfAsked(shape, closeShape)
    IN  [segments |->
            IF Len(closed) > 1
            THEN dottedCalculateShapeRotationsAndLengths(
                     resampleSegments(rawSegments(closed), updateStep(s, closed)))
            ELSE << >>,
         width |-> s.segmentWidth]

\* what the inner loop of drawDottedGeometry emits for the sub-point pairs lo..hi of
\* segment j, with the flag of the alternator as it is then: <<primitives, flag>>.  The
\* pairs are taken in order; the range is halved to keep the evaluation shallow.
RECURSIVE drawSegment(_, _, _, _, _, _, _, _)
drawSegment(segments, j, lo, hi, settings, colorFlag, type, width) ==
    IF lo > hi THEN <<<< >>, colorFlag>>
    ELSE IF lo = hi
    THEN LET c == getColor(settings, colorFlag, type)
         IN  <<<<[segment |-> j, point |-> lo, color |-> c.color,
                  rotation |-> segments[j].rotations[lo],
                  length |-> segments[j].lengths[lo], width |-> width]>>, c.flag>>
    ELSE LET mid == (lo + hi) \div 2
             head == drawSegment(segments, j, lo, mid, settings, colorFlag, type, width)
             rest == drawSegment(segments, j, mid + 1, hi, settings, head[2], type, width)
         IN  <<head[1] \o rest[1], rest[2]>>

\* the outer loop, for the segments j.. of the geometry, after out
RECURSIVE drawSegments(_, _, _, _, _, _, _)
drawSegments(segments, j, settings, colorFlag, type, width, out) ==
    IF j > Len(segments) THEN <<out, colorFlag>>
    ELSE LET r == drawSegment(segments, j, 1, Len(segments[j].shape) - 1, settings,
                              colorFlag, type, width)
         IN  drawSegments(segments, j + 1, settings, r[2], type, width, out \o r[1])

\* drawDottedGeometry that draws with the width of the geometry, whatever customWidth
drawDottedGeometryOwnWidth(d, settings, colorFlag, type, customWidth) ==
    LET r == drawSegments(d.segments, 1, settings, colorFlag, type, d.width, << >>)
    IN  [primitives |-> r[1], flag |-> r[2]]

\* drawDottedGeometry(dottedGeometryColor, type, customWidth): the primitives handed to
\* GLHelper::drawBoxLine, each with the colour set before it, and the flag of the
\* alternator after the call
drawDottedGeometry(d, settings, colorFlag, type, customWidth) ==
    LET width == IF customWidth > 0 THEN customWidth ELSE d.width
        r == drawSegments(d.segments, 1, settings, colorFlag, type, width, << >>)
    IN  [primitives |-> r[1], flag |-> r[2]]

---------------------------------------------------------------------------
(* DottedGeometry: the extremes, and the operations on a built geometry *)

\* moveShapeToSide(value)
moveShapeToSide(d, value) ==
    [d EXCEPT !.segments =
        [j \in 1..Len(d.segments) |->
            [d.segments[j] EXCEPT !.shape = move2side(d.segments[j].shape, value)]]]

\* invertOffset()
invertOffset(d) ==
    [d EXCEPT !.segments =
        [j \in 1..Len(d.segments) |-> [d.segments[j] EXCEPT !.offset = @ * (-1)]]]

\* the first extreme, if it is added
firstExtreme(top, drawFirstExtrem, bot) ==
    IF /\ drawFirstExtrem
       /\ Len(top.segments[1].shape) > 0
       /\ Len(bot.segments[1].shape) > 0
    THEN <<Segment(<<top.segments[1].shape[1], bot.segments[1].shape[1]>>)>>
    ELSE << >>

\* the last extreme with the offset a Segment is constructed with
lastExtremeSameOffset(top, bot, drawLastExtrem) ==
    LET topBack == top.segments[Len(top.segments)].shape
        botBack == bot.segments[Len(bot.segments)].shape
    IN  IF drawLastExtrem /\ Len(topBack) > 0 /\ Len(botBack) > 0
        THEN <<Segment(<<topBack[Len(topBack)], botBack[Len(botBack)]>>)>>
        ELSE << >>

\* the last extreme, if it is added, with its offset inverted
lastExtreme(top, bot, drawLastExtrem) ==
    LET topBack == top.segments[Len(top.segments)].shape
        botBack == bot.segments[Len(bot.segments)].shape
    IN  IF drawLastExtrem /\ Len(topBack) > 0 /\ Len(botBack) > 0
        THEN <<[Segment(<<topBack[Len(topBack)], botBack[Len(botBack)]>>)
                   EXCEPT !.offset = @ * (-1)]>>
        ELSE << >>

\* the segments pushed before the resampling
extremeSegments(top, drawFirstExtrem, bot, drawLastExtrem) ==
    IF Len(top.segments) > 0 /\ Len(bot.segments) > 0
    THEN firstExtreme(top, drawFirstExtrem, bot) \o lastExtreme(top, bot, drawLastExtrem)
    ELSE << >>

\* DottedGeometry(s, topDottedGeometry, drawFirstExtrem, botDottedGeometry, drawLastExtrem)
DottedGeometryExtremes(s, top, drawFirstExtrem, bot, drawLastExtrem) ==
    [segments |-> dottedCalculateShapeRotationsAndLengths(
                      resampleSegments(
                          extremeSegments(top, drawFirstExtrem, bot, drawLastExtrem),
                          Ratio(s.segmentLength, 1))),
     width |-> s.segmentWidth]

---------------------------------------------------------------------------
(* The dotted-contour draw passes.  A pass returns the primitives of its     *)
(* three runs and the flag its alternator had at the start of each.          *)

\* the pass without the reset() between the top and the bottom run
contourPassNoReset(settings, type, top, bot, extr, lineWidth) ==
    LET topRun == drawDottedGeometry(top, settings, TRUE, type, lineWidth)
        botRun == drawDottedGeometry(bot, settings, topRun.flag, type, lineWidth)
        afterChange == changeColor(botRun.flag)
        extremesRun == drawDottedGeometry(extr, settings, afterChange, type, lineWidth)
    IN  [top |-> topRun.primitives, bot |-> botRun.primitives,
         extremes |-> extremesRun.primitives,
         flags |-> <<TRUE, topRun.flag, afterChange>>]

\* the draws of a pass: DottedGeometryColor dottedGeometryColor(s), whose flag is true;
\* the top run; reset(); the bottom run; changeColor(); the extremes
contourPass(settings, type, top, bot, extr, lineWidth) ==
    LET topRun == drawDottedGeometry(top, settings, TRUE, type, lineWidth)
        afterReset == reset(topRun.flag)
        botRun == drawDottedGeometry(bot, settings, afterReset, type, lineWidth)
        afterChange == changeColor(botRun.flag)
        extremesRun == drawDottedGeometry(extr, settings, afterChange, type, lineWidth)
    IN  [top |-> topRun.primitives, bot |-> botRun.primitives,
         extremes |-> extremesRun.primitives,
         flags |-> <<TRUE, afterReset, afterChange>>]

\* the lineWidth and customWidth of a call that gives none
DefaultLineWidth == -1

---------------------------------------------------------------------------
(* GNEGeometry::Lane2laneConnection.  myConnectionsMap is a function from    *)
(* the destination lanes that are keys to their Geometry values.  The       *)
(* network is what the object reads through myFromLane: the outgoing edges  *)
(* of the junction the lane leads to, each a sequence of lanes.             *)

\* the lanes of the edges, edge after edge
RECURSIVE lanesOf(_)
lanesOf(edges) == IF edges = << >> THEN << >> ELSE Head(edges) \o lanesOf(Tail(edges))

\* myFromLane->getLaneShape().back()
FromLaneBack == <<0, 0, 0>>

\* outgoingLane->getLaneShape().front()
laneFront(lane) ==
    CASE lane = "a" -> <<4, 3, 0>>
      [] lane = "b" -> <<3, 4, 0>>
      [] lane = "c" -> <<-3, 4, 1>>

\* NBNode::computeSmoothShape: a curve from the end of the one lane to the start of the other
computeSmoothShape(begin, end) ==
    <<begin, <<begin[1], end[2], begin[3]>>, end>>

\* the shape of the connection to outgoingLane: smooth when the edge of myFromLane has at
\* most 10 lanes and its junction an area above 4, else the two lane ends
connectionShape(smooth, outgoingLane) ==
    IF smooth THEN computeSmoothShape(FromLaneBack, laneFront(outgoingLane))
    ELSE <<FromLaneBack, laneFront(outgoingLane)>>

\* myConnectionsMap[outgoingLane], the entry made if there is none
entryOf(map, outgoingLane) ==
    IF outgoingLane \in DOMAIN map THEN map[outgoingLane] ELSE EmptyGeometry

\* the two loops: myConnectionsMap[outgoingLane].updateGeometry(shape) for every lane
RECURSIVE insertLanes(_, _, _)
insertLanes(map, lanes, smooth) ==
    IF lanes = << >> THEN map
    ELSE LET outgoingLane == Head(lanes)
             geometry == updateGeometry(entryOf(map, outgoingLane),
                                        connectionShape(smooth, outgoingLane))
         IN  insertLanes([l \in DOMAIN map \cup {outgoingLane} |->
                             IF l = outgoingLane THEN geometry ELSE map[l]],
                         Tail(lanes), smooth)

\* the map with no keys
NoConnections == [l \in {} |-> EmptyGeometry]

\* updateLane2laneConnection without myConnectionsMap.clear()
updateLane2laneConnectionMerging(map, edges, smooth) ==
    insertLanes(map, lanesOf(edges), smooth)

\* updateLane2laneConnection()
updateLane2laneConnection(map, edges, smooth) ==
    insertLanes(NoConnections, lanesOf(edges), smooth)

\* exist(toLane)
exist(map, toLane) == Cardinality({l \in DOMAIN map : l = toLane}) > 0

\* getLane2laneGeometry with myConnectionsMap[toLane] for myConnectionsMap.at(toLane)
getLane2laneGeometryInserting(map, toLane) ==
    [thrown |-> FALSE, geometry |-> entryOf(map, toLane),
     map |-> [l \in DOMAIN map \cup {toLane} |-> entryOf(map, l)]]

\* getLane2laneGeometry(toLane): myConnectionsMap.at(toLane) returns the value of the key
\* or throws std::out_of_range; the method is const
getLane2laneGeometry(map, toLane) ==
    IF toLane \in DOMAIN map
    THEN [thrown |-> FALSE, geometry |-> map[toLane], map |-> map]
    ELSE [thrown |-> TRUE, geometry |-> EmptyGeometry, map |-> map]

---------------------------------------------------------------------------
(* The circle table.  An angle is a Ratio of degrees.  A point of the unit   *)
(* circle is kept as the number t of tenths of a degree it was computed     *)
(* for, which stands for Position(sin(DEG2RAD(t / 10)), cos(DEG2RAD(t /     *)
(* 10))); a vertex of a circle is kept as [tenths, width, pos], which       *)
(* stands for that point scaled by width and moved by pos.                  *)

\* CIRCLE_RESOLUTION, (double)10
CIRCLE_RESOLUTION == 10

\* the % of C++ on int: the remainder has the sign of a
Remainder(a, b) == IF a >= 0 THEN a % Abs(b) ELSE -((-a) % Abs(b))

\* the entry pushed for i
CirclePoint(i) == i

\* (int)(angleDeg * CIRCLE_RESOLUTION), without the + 0.5 and the floor: towards zero
truncatedTenths(angleDeg) ==
    IF angleDeg.num >= 0 THEN (CIRCLE_RESOLUTION * angleDeg.num) \div angleDeg.den
    ELSE -((CIRCLE_RESOLUTION * (-angleDeg.num)) \div angleDeg.den)

\* (int)floor(angleDeg * CIRCLE_RESOLUTION + 0.5)
roundedTenths(angleDeg) ==
    (2 * CIRCLE_RESOLUTION * angleDeg.num + angleDeg.den) \div (2 * angleDeg.den)

\* angleLookup without the correction of a negative index
angleLookupRemainderOnly(coords, angleDeg) ==
    Remainder(roundedTenths(angleDeg), Len(coords) - 1)

\* angleLookup(angleDeg), coords being myCircleCoords
angleLookup(coords, angleDeg) ==
    LET numCoords == Len(coords) - 1
        index == Remainder(roundedTenths(angleDeg), numCoords)
    IN  IF index < 0 THEN index + numCoords ELSE index

\* the assertion of angleLookup
angleLookupAssertion(coords, angleDeg) == angleLookup(coords, angleDeg) >= 0

\* the loop that fills the table
filledCircleCoords(coords) ==
    coords \o [k \in 1..(360 * CIRCLE_RESOLUTION + 1) |-> CirclePoint(k - 1)]

\* the first lines of getVertexCircleAroundPosition, filling a table that is not empty too
fillCircleCoordsAlways(coords) == filledCircleCoords(coords)

\* the first lines of getVertexCircleAroundPosition: the table is filled if it is empty
fillCircleCoords(coords) ==
    IF Len(coords) = 0 THEN filledCircleCoords(coords) ELSE coords

\* i * inc, inc being 360 / (double)steps
stepAngle(i, steps) == Ratio(360 * i, steps)

\* getVertexCircleAroundPosition with the loop stopping before i = steps
getVertexCircleOpen(coords, pos, width, steps) ==
    LET table == fillCircleCoords(coords)
    IN  [coords |-> table,
         lookups |-> [k \in 1..steps |->
                         [angle |-> stepAngle(k - 1, steps), size |-> Len(table),
                          index |-> angleLookup(table, stepAngle(k - 1, steps))]],
         vertexCircle |-> [k \in 1..steps |->
                         [tenths |-> table[angleLookup(table, stepAngle(k - 1, steps)) + 1],
                          width |-> width, pos |-> pos]]]

\* getVertexCircleAroundPosition(pos, width, steps), steps >= 1: the table after the call,
\* the angleLookup calls made and the points returned
getVertexCircleAroundPosition(coords, pos, width, steps) ==
    LET table == fillCircleCoords(coords)
    IN  [coords |-> table,
         lookups |-> [k \in 1..(steps + 1) |->
                         [angle |-> stepAngle(k - 1, steps), size |-> Len(table),
                          index |-> angleLookup(table, stepAngle(k - 1, steps))]],
         vertexCircle |-> [k \in 1..(steps + 1) |->
                         [tenths |-> table[angleLookup(table, stepAngle(k - 1, steps)) + 1],
                          width |-> width, pos |-> pos]]]

\* the steps drawDottedContourCircle asks for; radius is in units of 0.05 m
contourCircleSteps(radius, exaggeration) ==
    IF radius * exaggeration < 2 * 20 THEN 8 ELSE 16

\* the coordinates of a vertex at a multiple of 90 degrees: sin and cos are 0, 1 or -1
cornerPosition(vertex) ==
    CASE vertex.tenths = 0 -> <<vertex.pos[1], vertex.pos[2] + vertex.width>>
      [] vertex.tenths = 900 -> <<vertex.pos[1] + vertex.width, vertex.pos[2]>>
      [] vertex.tenths = 1800 -> <<vertex.pos[1], vertex.pos[2] - vertex.width>>
      [] vertex.tenths = 2700 -> <<vertex.pos[1] - vertex.width, vertex.pos[2]>>

---------------------------------------------------------------------------
(* GNEGeometry::adjustStartPosGeometricPath.  A lane is "null" or the name   *)
(* of a lane; positions are in units of 0.05 m.                              *)

\* lane->getLaneShape() of the lanes a path starts and ends on
pathLaneShape(lane) ==
    CASE lane = "short" -> <<<<0, 0, 0>>, <<3, 0, 0>>>>
      [] lane = "bent" -> <<<<0, 0, 0>>, <<3, 0, 0>>, <<3, 4, 0>>>>
      [] lane = "long" -> <<<<0, 0, 0>>, <<20, 0, 0>>>>

\* the first block: endPos moved behind startPos on one lane
endBehindStart(startPos, startLane, endPos, endLane) ==
    IF /\ startLane /= "null" /\ endLane /= "null" /\ startLane = endLane
       /\ startPos /= Unset /\ endPos /= Unset
       /\ startPos >= endPos
    THEN startPos + POSITION_EPS
    ELSE endPos

\* the block that adjusts one position to its lane
adjustToLane(pos, lane) ==
    IF pos /= Unset /\ lane /= "null"
    THEN LET low == IF pos < POSITION_EPS THEN POSITION_EPS ELSE pos
             top == length(pathLaneShape(lane)) - POSITION_EPS
         IN  IF low > top THEN top ELSE low
    ELSE pos

\* adjustStartPosGeometricPath(startPos, startLane, endPos, endLane): the two positions
\* as the call leaves them
adjustStartPosGeometricPath(startPos, startLane, endPos, endLane) ==
    [startPos |-> adjustToLane(startPos, startLane),
     endPos |-> adjustToLane(endBehindStart(startPos, startLane, endPos, endLane), endLane)]

---------------------------------------------------------------------------
(* The inputs the operations are called with *)

P00 == <<0, 0, 0>>

P30 == <<3, 0, 0>>

P04 == <<0, 4, 1>>

P34 == <<3, 4, 0>>

Points == {P00, P30, P04}

\* the polyline of the documented example, Geometry({(0,0),(0,10)})
ExamplePath == << <<0, 0, 0>>, <<0, 10, 0>> >>

\* the polylines the constructor and updateGeometry(shape) are given: every polyline of
\* at most MaxLen points that has one point or starts at P00, and the example
Shapes ==
    {s \in UNION {[1..n -> Points] : n \in 0..MaxLen} : Len(s) < 2 \/ s[1] = P00}
        \cup {ExamplePath}

\* the paths the arclength variants are called with: of 2D length 0, 0, 0, 3 and 7
Paths == {<< >>, <<P00>>, <<P00, P00>>, <<P00, P30>>, <<P00, P30, P34>>}

FewPaths == {<< >>, <<P00, P30>>, <<P00, P30, P34>>}

OffsetInputs == {Unset, -1, 0, 2, 5, 9}

FewOffsets == {Unset, 9}

LateralInputs == {0, 2}

\* the extra first and last positions of the trimming variant
ExtraInputs == {<<INVALID, INVALID>>, <<P00, P34>>, <<P04, INVALID>>}

RotationInputs == {Atan2(0, 1), Atan2(1, 1)}

\* the shape and the caches the array constructor is given
CacheInputs ==
    { << << >>, << >>, << >> >>,
      << <<P00>>, <<Atan2(1, 0)>>, << >> >>,
      << <<P00, P30>>, <<Atan2(1, 0)>>, <<Real(3)>> >>,
      << <<P00, P30>>, << >>, <<Real(4), Real(2)>> >>,
      << <<P00, P30, P34>>, <<Atan2(0, 1)>>, <<Real(4)>> >> }

ScaleInputs == {Ratio(-1, 1), Ratio(0, 1), Ratio(1, 2), Ratio(2, 1)}

\* the points scaleRelative may scale from
Centres(shape) == {P00} \cup (IF Len(shape) > 0 THEN {shape[1]} ELSE {})

\* the colours a settings object may hold
Palette == {BLACK, WHITE}

\* the settings the alternator is constructed with: the two colours of a pair may be
\* different or the same
SettingsInputs ==
    [firstInspectedColor : Palette, secondInspectedColor : Palette,
     firstFrontColor : Palette, secondFrontColor : Palette]

DefaultSettings ==
    [firstInspectedColor |-> BLACK, secondInspectedColor |-> WHITE,
     firstFrontColor |-> WHITE, secondFrontColor |-> BLACK]

\* the dash length (in units of 0.05 m) and dash width of the settings
DashInputs ==
    {[segmentLength |-> 1000, segmentWidth |-> 2], [segmentLength |-> 2000, segmentWidth |-> 3]}

\* paths of 150 m and of 600 m, and a triangle that is 350 m long open and 600 m closed
MediumPath == <<P00, <<3000, 0, 0>>>>

LongPath == <<P00, <<12000, 0, 0>>>>

Triangle == <<P00, <<4000, 0, 0>>, <<4000, 3000, 0>>>>

\* the polylines and lane shapes a DottedGeometry is built from, one of them with a
\* point twice in a row
DottedShapes ==
    {<< >>, <<P00>>, <<P00, P30>>, <<P00, P30, P34>>, <<P00, P00, P30>>, MediumPath,
     LongPath, Triangle}

\* customWidth
WidthInputs == {0, 4}

\* the contour types drawn: two the alternator recognizes and one it does not
DrawTypes == {"INSPECT", "GREEN", "OTHER"}

\* the destination lanes
Lanes == {"a", "b", "c"}

\* the outgoing edges of the junction, as the network has them at one time or another
Topologies ==
    {<< >>, <<<<"a">>>>, <<<<"a", "b">>>>, <<<<"a">>, <<"c">>>>, <<<<"b">>, <<"c">>>>}

\* angles in twentieths of a degree: around 0, 360 and -360, halfway between two entries,
\* and the last half entry before 360
Twentieths == {-7200, -3601, -1, 0, 7199}

\* the angles angleLookup is called with: those, and each of them a turn further
AngleInputs == {Ratio(t, 20) : t \in Twentieths} \cup {Ratio(t + 7200, 20) : t \in Twentieths}

\* the centres, radii (in units of 0.05 m), steps and exaggerations of the circles
CentreInputs == {<<0, 0>>, <<3, 4>>}

RadiusInputs == {10, 100}

StepsInputs == {1, 4, 7}

ExaggerationInputs == {1, 4}

\* the lanes and the positions of a path
PathLanes == {"null", "short", "bent", "long"}

PositionInputs == {Unset, 0, 1, 5, 19, 30}

\* the shapes of the two sides of a contour: none, one piece, two pieces, and two with
\* the first or the last point twice
SideShapes ==
    {<< >>, <<P00, P30>>, <<P00, P30, P34>>, <<P00, P00, P30>>, <<P00, P30, P30>>}

\* the amounts a side is moved by
SideInputs == {0, 2}

\* the shapes a contour pass is drawn over: one, two and three dashes to a side with
\* the shorter dash length
PassShapes == {<<P00, P30>>, <<P00, P30, P34>>, <<P00, P00, P30>>, MediumPath}

\* the half widths of a contour pass: the sides coincide, or lie 0.1 m off the centre
PassWidths == {0, 2}

\* the edges of a contour pass, each the shapes of its lanes
EdgeInputs ==
    {<<<<P00, P30>>>>, <<<<P00, P30>>, <<P04, P34>>>>, <<<<P00, P30>>, <<P04, P04>>>>,
     <<MediumPath, <<P00, P30>>, <<P00, P30, P34>>>>}

---------------------------------------------------------------------------
(* DottedGeometryColor: the state machine *)

NoColor == << >>

\* the last MaxRun colours of colors
Latest(colors) ==
    IF Len(colors) > MaxRun THEN SubSeq(colors, Len(colors) - MaxRun + 1, Len(colors))
    ELSE colors

\* DottedGeometryColor(settings)
DottedGeometryColorInit(settings) ==
    /\ mySettings \in settings
    /\ myColorFlag = TRUE
    /\ called = [op |-> "DottedGeometryColor", type |-> "NONE", color |-> NoColor,
                 flagBefore |-> TRUE]
    /\ earlier = [op |-> "NONE", type |-> "NONE", color |-> NoColor, flagBefore |-> TRUE]
    /\ run = << >>
    /\ ref = [flag |-> TRUE, color |-> NoColor, spared |-> FALSE]

\* getColor(type); the alternator ref gets the call when the type is recognized
GetColor ==
    \E type \in ContourTypes :
        LET r == getColor(mySettings, myColorFlag, type)
            q == getColor(mySettings, ref.flag, type)
        IN  /\ myColorFlag' = r.flag
            /\ called' = [op |-> "getColor", type |-> type, color |-> r.color,
                          flagBefore |-> myColorFlag]
            /\ earlier' = called
            /\ run' = IF called.op = "getColor" /\ called.type = type
                      THEN Latest(Append(run, r.color)) ELSE <<r.color>>
            /\ ref' = IF type \in RecognizedTypes
                      THEN [ref EXCEPT !.flag = q.flag, !.color = q.color]
                      ELSE [ref EXCEPT !.spared = TRUE]
            /\ UNCHANGED <<mySettings, geomVars, dottedVars, laneVars, circleVars, contourVars>>

ChangeColor ==
    /\ myColorFlag' = changeColor(myColorFlag)
    /\ called' = [op |-> "changeColor", type |-> "NONE", color |-> NoColor,
                  flagBefore |-> myColorFlag]
    /\ earlier' = called
    /\ run' = << >>
    /\ ref' = [ref EXCEPT !.flag = changeColor(ref.flag)]
    /\ UNCHANGED <<mySettings, geomVars, dottedVars, laneVars, circleVars, contourVars>>

Reset ==
    /\ myColorFlag' = reset(myColorFlag)
    /\ called' = [op |-> "reset", type |-> "NONE", color |-> NoColor,
                  flagBefore |-> myColorFlag]
    /\ earlier' = called
    /\ run' = << >>
    /\ ref' = [ref EXCEPT !.flag = reset(ref.flag)]
    /\ UNCHANGED <<mySettings, geomVars, dottedVars, laneVars, circleVars, contourVars>>

---------------------------------------------------------------------------
(* DottedGeometry: the state machine *)

Dotted == [segments |-> myDottedGeometrySegments, width |-> myWidth]

NoStep == Ratio(0, 1)

NoDrawn ==
    [called |-> FALSE, type |-> "NONE", customWidth |-> 0, flagBefore |-> TRUE,
     flagAfter |-> TRUE, primitives |-> << >>]

SetDotted(d) ==
    /\ myDottedGeometrySegments' = d.segments
    /\ myWidth' = d.width
    /\ drawn' = NoDrawn
    /\ UNCHANGED <<geomVars, colorVars, laneVars, circleVars, contourVars>>

\* DottedGeometry()
DottedInit ==
    /\ myDottedGeometrySegments = << >>
    /\ myWidth = 0
    /\ built = [op |-> "DottedGeometry", resampled |-> FALSE, step |-> NoStep,
                len |-> 0, dash |-> 0]
    /\ drawn = NoDrawn

ConstructDotted ==
    /\ SetDotted(EmptyDottedGeometry)
    /\ built' = [op |-> "DottedGeometry", resampled |-> FALSE, step |-> NoStep,
                 len |-> 0, dash |-> 0]

ConstructDottedShape ==
    \E s \in DashInputs, shape \in DottedShapes, closeShape \in BOOLEAN :
        LET closed == closedIfAsked(shape, closeShape)
        IN  /\ SetDotted(DottedGeometryShape(s, shape, closeShape))
            /\ built' = [op |-> "DottedGeometryShape", resampled |-> Len(closed) > 1,
                         step |-> IF Len(closed) > 1 THEN constructorStep(s, closed)
                                  ELSE NoStep,
                         len |-> length2D(closed), dash |-> s.segmentLength]

UpdateDottedGeometryLane ==
    \E s \in DashInputs, laneShape \in DottedShapes :
        /\ SetDotted(updateDottedGeometryLane(Dotted, s, laneShape))
        /\ built' = [op |-> "updateDottedGeometryLane", resampled |-> Len(laneShape) > 1,
                     step |-> IF Len(laneShape) > 1 THEN laneStep(s, laneShape)
                              ELSE NoStep,
                     len |-> length2D(laneShape), dash |-> s.segmentLength]

UpdateDottedGeometryShape ==
    \E s \in DashInputs, shape \in DottedShapes, closeShape \in BOOLEAN :
        LET closed == closedIfAsked(shape, closeShape)
        IN  /\ SetDotted(updateDottedGeometryShape(Dotted, s, shape, closeShape))
            /\ built' = [op |-> "updateDottedGeometryShape", resampled |-> Len(closed) > 1,
                         step |-> IF Len(closed) > 1 THEN updateStep(s, closed)
                                  ELSE NoStep,
                         len |-> length2D(closed), dash |-> s.segmentLength]

\* drawDottedGeometry(dottedGeometryColor, type, customWidth): the alternator is the
\* caller's, passed by reference, in either of its two states; drawn keeps its flag before
\* and after the call
DrawDottedGeometry ==
    \E type \in DrawTypes, customWidth \in WidthInputs, colorFlag \in BOOLEAN :
        LET r == drawDottedGeometry(Dotted, mySettings, colorFlag, type, customWidth)
        IN  /\ drawn' = [called |-> TRUE, type |-> type, customWidth |-> customWidth,
                         flagBefore |-> colorFlag, flagAfter |-> r.flag,
                         primitives |-> r.primitives]
            /\ UNCHANGED <<geomVars, colorVars, laneVars, circleVars,
                           myDottedGeometrySegments, myWidth, built, contourVars>>

---------------------------------------------------------------------------
(* Lane2laneConnection: the state machine *)

NoRead ==
    [op |-> "NONE", toLane |-> "NONE", existed |-> FALSE, thrown |-> FALSE,
     geometry |-> EmptyGeometry, mapBefore |-> NoConnections]

\* Lane2laneConnection(fromLane), in a network whose junction has no outgoing edge yet
Lane2laneConnectionInit ==
    /\ myConnectionsMap = NoConnections
    /\ outgoingEdges = << >>
    /\ updated = [called |-> FALSE, lanes |-> {}, keysBefore |-> {}]
    /\ read = NoRead

\* the network is edited: edges and lanes are added to and removed from the junction
EditNetwork ==
    \E edges \in Topologies :
        /\ edges /= outgoingEdges
        /\ outgoingEdges' = edges
        /\ read' = NoRead
        /\ UNCHANGED <<myConnectionsMap, updated, geomVars, colorVars, dottedVars,
                       circleVars, contourVars>>

UpdateLane2laneConnection ==
    \E smooth \in BOOLEAN :
        /\ myConnectionsMap' = updateLane2laneConnection(myConnectionsMap, outgoingEdges, smooth)
        /\ updated' = [called |-> TRUE,
                       lanes |-> {lanesOf(outgoingEdges)[i] :
                                     i \in 1..Len(lanesOf(outgoingEdges))},
                       keysBefore |-> DOMAIN myConnectionsMap]
        /\ read' = NoRead
        /\ UNCHANGED <<outgoingEdges, geomVars, colorVars, dottedVars, circleVars, contourVars>>

Exist ==
    \E toLane \in Lanes :
        /\ read' = [op |-> "exist", toLane |-> toLane,
                    existed |-> exist(myConnectionsMap, toLane), thrown |-> FALSE,
                    geometry |-> EmptyGeometry, mapBefore |-> myConnectionsMap]
        /\ UNCHANGED <<myConnectionsMap, outgoingEdges, updated, geomVars, colorVars,
                       dottedVars, circleVars, contourVars>>

GetLane2laneGeometry ==
    \E toLane \in Lanes :
        LET r == getLane2laneGeometry(myConnectionsMap, toLane)
        IN  /\ myConnectionsMap' = r.map
            /\ read' = [op |-> "getLane2laneGeometry", toLane |-> toLane,
                        existed |-> exist(myConnectionsMap, toLane), thrown |-> r.thrown,
                        geometry |-> r.geometry, mapBefore |-> myConnectionsMap]
            /\ UNCHANGED <<outgoingEdges, updated, geomVars, colorVars, dottedVars,
                           circleVars, contourVars>>

Lane2laneNext ==
    \/ EditNetwork
    \/ UpdateLane2laneConnection
    \/ Exist
    \/ GetLane2laneGeometry

---------------------------------------------------------------------------
(* The circle table: the state machine *)

\* the number of angleLookup calls that are remembered
MaxLooked == 2

\* the last MaxLooked of the lookups
Latest2(lookups) ==
    IF Len(lookups) <= MaxLooked THEN lookups
    ELSE SubSeq(lookups, Len(lookups) - MaxLooked + 1, Len(lookups))

CircleInit ==
    /\ myCircleCoords = << >>
    /\ looked = << >>
    /\ circle = [called |-> FALSE, op |-> "NONE", pos |-> <<0, 0>>, width |-> 0,
                 steps |-> 0, sizeBefore |-> 0, lookups |-> << >>, vertexCircle |-> << >>]

\* the call is recorded, with the size the table had before it
CircleCalled(op, pos, width, steps, r) ==
    /\ looked' = Latest2(looked \o r.lookups)
    /\ circle' = [called |-> TRUE, op |-> op, pos |-> pos, width |-> width,
                  steps |-> steps, sizeBefore |-> Len(myCircleCoords),
                  lookups |-> r.lookups, vertexCircle |-> r.vertexCircle]
    /\ UNCHANGED <<geomVars, colorVars, dottedVars, laneVars, contourVars>>

GetVertexCircleAroundPosition ==
    \E pos \in CentreInputs, width \in RadiusInputs, steps \in StepsInputs :
        LET r == getVertexCircleAroundPosition(myCircleCoords, pos, width, steps)
        IN  /\ myCircleCoords' = r.coords
            /\ CircleCalled("getVertexCircleAroundPosition", pos, width, steps, r)

\* drawDottedContourCircle(type, s, pos, radius, exaggeration): the circle it asks for;
\* the contour it then draws of it leaves no state behind
DrawDottedContourCircle ==
    \E pos \in CentreInputs, radius \in RadiusInputs, exaggeration \in ExaggerationInputs :
        LET steps == contourCircleSteps(radius, exaggeration)
            r == getVertexCircleAroundPosition(myCircleCoords, pos, radius, steps)
        IN  /\ myCircleCoords' = r.coords
            /\ CircleCalled("drawDottedContourCircle", pos, radius, steps, r)

AngleLookup ==
    \E angleDeg \in AngleInputs :
        /\ looked' = Latest2(Append(looked,
                         [angle |-> angleDeg, size |-> Len(myCircleCoords),
                          index |-> angleLookup(myCircleCoords, angleDeg)]))
        /\ UNCHANGED <<myCircleCoords, circle, geomVars, colorVars, dottedVars, laneVars, contourVars>>

CircleNext ==
    \/ GetVertexCircleAroundPosition
    \/ DrawDottedContourCircle
    \/ AngleLookup

---------------------------------------------------------------------------
(* The contours and the paths: the state machine *)

NoExtremes == [called |-> FALSE]

NoPass == [called |-> FALSE]

ContourInit ==
    /\ extremes = NoExtremes
    /\ pass = NoPass
    /\ adjusted = [called |-> FALSE, startPos |-> Unset, startLane |-> "null",
                   endPos |-> Unset, endLane |-> "null",
                   newStartPos |-> Unset, newEndPos |-> Unset]

AdjustStartPosGeometricPath ==
    \E startPos \in PositionInputs, endPos \in PositionInputs,
       startLane \in PathLanes, endLane \in PathLanes :
        LET r == adjustStartPosGeometricPath(startPos, startLane, endPos, endLane)
        IN  /\ adjusted' = [called |-> TRUE, startPos |-> startPos, startLane |-> startLane,
                            endPos |-> endPos, endLane |-> endLane,
                            newStartPos |-> r.startPos, newEndPos |-> r.endPos]
            /\ UNCHANGED <<extremes, pass, geomVars, colorVars, dottedVars, laneVars,
                           circleVars>>

PathNext == AdjustStartPosGeometricPath

\* DottedGeometry(s, top, drawFirstExtrem, bot, drawLastExtrem), top and bot built from a
\* shape each and moved to their sides as the contours do
ConstructDottedExtremes ==
    \E s \in DashInputs, topShape \in SideShapes, botShape \in SideShapes,
       value \in SideInputs, drawFirstExtrem \in BOOLEAN, drawLastExtrem \in BOOLEAN :
        LET top == invertOffset(moveShapeToSide(DottedGeometryShape(s, topShape, FALSE),
                                                value))
            bot == moveShapeToSide(DottedGeometryShape(s, botShape, FALSE), -value)
        IN  /\ extremes' =
                  [called |-> TRUE, top |-> top, bot |-> bot,
                   drawFirstExtrem |-> drawFirstExtrem, drawLastExtrem |-> drawLastExtrem,
                   pushed |-> extremeSegments(top, drawFirstExtrem, bot, drawLastExtrem),
                   built |-> DottedGeometryExtremes(s, top, drawFirstExtrem, bot,
                                                    drawLastExtrem)]
            /\ UNCHANGED <<pass, adjusted, geomVars, colorVars, dottedVars, laneVars,
                           circleVars>>

ExtremesNext == ConstructDottedExtremes

\* what a pass leaves to check: the primitives of its runs and the flags they began with
Drawn(op, type, r) ==
    [called |-> TRUE, op |-> op, type |-> type, top |-> r.top, bot |-> r.bot,
     extremes |-> r.extremes, flags |-> r.flags]

\* the statements of drawDottedContourShape(type, s, shape, width, exaggeration,
\* drawFirstExtrem, drawLastExtrem, lineWidth), its locals bound in their order
ContourShapeDrawn(op, type, s, shape, width, exaggeration, drawFirstExtrem, drawLastExtrem, lineWidth) ==
    \E dottedGeometry \in {DottedGeometryShape(s, shape, FALSE)} :
        \E topDottedGeometry \in
               {invertOffset(moveShapeToSide(dottedGeometry, width * exaggeration))},
           botDottedGeometry \in
               {moveShapeToSide(dottedGeometry, width * exaggeration * (-1))} :
            \E extr \in {DottedGeometryExtremes(s, topDottedGeometry, drawFirstExtrem,
                                                botDottedGeometry, drawLastExtrem)} :
                pass' = Drawn(op, type,
                              contourPass(mySettings, type, topDottedGeometry,
                                          botDottedGeometry, extr, lineWidth))

DrawDottedContourShape ==
    \E type \in DrawTypes, s \in DashInputs, shape \in PassShapes, width \in PassWidths,
       exaggeration \in ExaggerationInputs, drawFirstExtrem \in BOOLEAN,
       drawLastExtrem \in BOOLEAN, lineWidth \in WidthInputs :
        /\ ContourShapeDrawn("drawDottedContourShape", type, s, shape, width,
                             exaggeration, drawFirstExtrem, drawLastExtrem, lineWidth)
        /\ UNCHANGED <<extremes, adjusted, geomVars, colorVars, dottedVars, laneVars,
                       circleVars>>

\* drawDottedContourEdge(type, s, edge, drawFrontExtreme, drawBackExtreme): lanes are the
\* shapes of the lanes of the edge, and the half widths those of the LaneDrawingConstants
\* of its top and of its bottom lane; the draws are given no line width
DrawDottedContourEdge ==
    \E type \in DrawTypes, s \in DashInputs, lanes \in EdgeInputs, lefthand \in BOOLEAN,
       halfWidthFront \in PassWidths, halfWidthBack \in PassWidths,
       drawFrontExtreme \in BOOLEAN, drawBackExtreme \in BOOLEAN :
        /\ IF Len(lanes) = 1
           THEN ContourShapeDrawn("drawDottedContourEdge", type, s, lanes[1],
                                  halfWidthFront, 1, drawFrontExtreme, drawBackExtreme,
                                  DefaultLineWidth)
           ELSE \E topLane \in {IF lefthand THEN lanes[Len(lanes)] ELSE lanes[1]},
                   botLane \in {IF lefthand THEN lanes[1] ELSE lanes[Len(lanes)]} :
                    \E dottedGeometryTop \in
                           {invertOffset(moveShapeToSide(
                                DottedGeometryShape(s, topLane, FALSE), halfWidthFront))},
                       dottedGeometryBot \in
                           {moveShapeToSide(DottedGeometryShape(s, botLane, FALSE),
                                            halfWidthBack * (-1))} :
                        \E extr \in
                               {DottedGeometryExtremes(s, dottedGeometryTop,
                                                       drawFrontExtreme,
                                                       dottedGeometryBot,
                                                       drawBackExtreme)} :
                            pass' = Drawn("drawDottedContourEdge", type,
                                          contourPass(mySettings, type,
                                                      dottedGeometryTop,
                                                      dottedGeometryBot, extr,
                                                      DefaultLineWidth))
        /\ UNCHANGED <<extremes, adjusted, geomVars, colorVars, dottedVars, laneVars,
                       circleVars>>

ContourNext ==
    \/ DrawDottedContourShape
    \/ DrawDottedContourEdge

---------------------------------------------------------------------------
(* Geometry: the state machine *)

NoOffsets == <<0, 0>>

NoSubpart == [called |-> FALSE, begin |-> 0, end |-> 0, len |-> 0]

NoAtOffset == [called |-> FALSE, pos |-> 0, len |-> 0]

SetGeometry(g) ==
    /\ myShape' = g.shape
    /\ myShapeRotations' = g.rotations
    /\ myShapeLengths' = g.lengths
    /\ UNCHANGED <<colorVars, dottedVars, laneVars, circleVars, contourVars>>

\* what an operation other than scaleGeometry leaves in the history variables
History(op, g, shape, offsets, sub, at) ==
    /\ baseOp' = op
    /\ argShape' = shape
    /\ argOffsets' = offsets
    /\ subpart' = sub
    /\ atOffset' = at
    /\ scaleBase' = [rotations |-> g.rotations, lengths |-> g.lengths]
    /\ scaleFactors' = << >>

GeometryInit ==
    /\ myShape = << >>
    /\ myShapeRotations = << >>
    /\ myShapeLengths = << >>
    /\ baseOp = "Geometry"
    /\ argShape = << >>
    /\ argOffsets = NoOffsets
    /\ subpart = NoSubpart
    /\ atOffset = NoAtOffset
    /\ scaleBase = [rotations |-> << >>, lengths |-> << >>]
    /\ scaleFactors = << >>

GeomInit ==
    /\ GeometryInit /\ DottedGeometryColorInit({DefaultSettings}) /\ DottedInit
    /\ Lane2laneConnectionInit /\ CircleInit /\ ContourInit

ConstructDefault ==
    /\ SetGeometry(EmptyGeometry)
    /\ History("Geometry", EmptyGeometry, << >>, NoOffsets, NoSubpart, NoAtOffset)

ConstructShape ==
    \E shape \in Shapes :
        LET g == GeometryShape(shape)
        IN  /\ SetGeometry(g)
            /\ History("GeometryShape", g, shape, NoOffsets, NoSubpart, NoAtOffset)

ConstructCaches ==
    \E in \in CacheInputs :
        LET g == GeometryCaches(in[1], in[2], in[3])
        IN  /\ SetGeometry(g)
            /\ History("GeometryCaches", g, in[1], NoOffsets, NoSubpart, NoAtOffset)

UpdateGeometry ==
    \E shape \in Shapes :
        LET g == updateGeometry(Geom, shape)
        IN  /\ SetGeometry(g)
            /\ History("updateGeometry", g, shape, NoOffsets, NoSubpart, NoAtOffset)

UpdateGeometryPos(paths, offsets) ==
    \E shape \in paths, posOverShape \in offsets, lateralOffset \in LateralInputs :
        LET g == updateGeometryPos(Geom, shape, posOverShape, lateralOffset)
        IN  /\ SetGeometry(g)
            /\ History("updateGeometryPos", g, shape, <<posOverShape, 0>>, NoSubpart,
                       [called |-> TRUE, len |-> length(shape),
                        pos |-> clampPosOverShape(posOverShape, length(shape))])

UpdateGeometryOffsets(paths, offsets) ==
    \E shape \in paths, starPosOverShape \in offsets, endPosOverShape \in offsets,
       lateralOffset \in LateralInputs :
        LET shapeLength == length2D(move2side(shape, lateralOffset))
            w == clampOffsets(starPosOverShape, endPosOverShape, shapeLength)
            g == updateGeometryOffsets(Geom, shape, starPosOverShape, endPosOverShape,
                                       lateralOffset)
        IN  /\ SetGeometry(g)
            /\ History("updateGeometryOffsets", g, shape,
                       <<starPosOverShape, endPosOverShape>>,
                       [called |-> TRUE, begin |-> w[1], end |-> w[2], len |-> shapeLength],
                       NoAtOffset)

UpdateGeometryTrim(paths, offsets) ==
    \E shape \in paths, beginTrimPosition \in offsets, endTrimPosition \in offsets,
       extra \in ExtraInputs :
        LET shapeLength == length2D(shape)
            w == trimOffsets(beginTrimPosition, endTrimPosition, shapeLength)
            g == updateGeometryTrim(Geom, shape, beginTrimPosition, endTrimPosition,
                                    extra[1], extra[2])
        IN  /\ SetGeometry(g)
            /\ History("updateGeometryTrim", g, shape,
                       <<beginTrimPosition, endTrimPosition>>,
                       IF trims(beginTrimPosition, endTrimPosition)
                       THEN [called |-> TRUE, begin |-> w[1], end |-> w[2],
                             len |-> shapeLength]
                       ELSE NoSubpart,
                       NoAtOffset)

UpdateSinglePosGeometry ==
    \E position \in Points, rotation \in RotationInputs :
        LET g == updateSinglePosGeometry(Geom, position, rotation)
        IN  /\ SetGeometry(g)
            /\ History("updateSinglePosGeometry", g, << >>, NoOffsets, NoSubpart,
                       NoAtOffset)

\* scaleGeometry is called with the factors whose results are values of the model, at
\* most MaxScales times in a row; the history keeps the operation scaled and forgets
\* its arguments
ScaleGeometry ==
    \E scale \in ScaleInputs :
        \E c \in Centres(myShape) :
            /\ Len(scaleFactors) < MaxScales
            /\ ExactShape(myShape, scale, c)
            /\ \A i \in 1..Len(myShapeLengths) : ExactLength(myShapeLengths[i], scale)
            /\ SetGeometry(scaleGeometry(Geom, scale, c))
            /\ scaleFactors' = Append(scaleFactors, scale)
            /\ argShape' = << >>
            /\ argOffsets' = NoOffsets
            /\ subpart' = NoSubpart
            /\ atOffset' = NoAtOffset
            /\ UNCHANGED <<baseOp, scaleBase>>

\* every operation of Geometry, the arclength variants with few inputs
GeomNext ==
    \/ ConstructDefault
    \/ ConstructShape
    \/ ConstructCaches
    \/ UpdateGeometry
    \/ UpdateGeometryPos(FewPaths, FewOffsets)
    \/ UpdateGeometryOffsets(FewPaths, FewOffsets)
    \/ UpdateGeometryTrim(FewPaths, FewOffsets)
    \/ UpdateSinglePosGeometry
    \/ ScaleGeometry

SpecGeometry == GeomInit /\ [][GeomNext]_vars

\* the arclength variants of updateGeometry alone, with all their inputs
TrimNext ==
    \/ UpdateGeometryPos(Paths, OffsetInputs)
    \/ UpdateGeometryOffsets(Paths, OffsetInputs)
    \/ UpdateGeometryTrim(Paths, OffsetInputs)

SpecTrim == GeomInit /\ [][TrimNext]_vars

\* the operations of DottedGeometryColor
ColorNext ==
    \/ GetColor
    \/ ChangeColor
    \/ Reset

ColorInit ==
    /\ GeometryInit /\ DottedGeometryColorInit(SettingsInputs) /\ DottedInit
    /\ Lane2laneConnectionInit /\ CircleInit /\ ContourInit

SpecColor == ColorInit /\ [][ColorNext]_vars

\* the operations of DottedGeometry
DottedNext ==
    \/ ConstructDotted
    \/ ConstructDottedShape
    \/ UpdateDottedGeometryLane
    \/ UpdateDottedGeometryShape
    \/ DrawDottedGeometry

SpecDotted == GeomInit /\ [][DottedNext]_vars

SpecLane2lane == GeomInit /\ [][Lane2laneNext]_vars

SpecCircle == GeomInit /\ [][CircleNext]_vars

SpecPath == GeomInit /\ [][PathNext]_vars

SpecExtremes == GeomInit /\ [][ExtremesNext]_vars

SpecContour == GeomInit /\ [][ContourNext]_vars

---------------------------------------------------------------------------
(* Geometry: the properties *)

\* the operations that end in calculateShapeRotationsAndLengths
Recomputing ==
    {"GeometryShape", "updateGeometry", "updateGeometryOffsets", "updateGeometryTrim"}

\* the operations that leave one point and one rotation
SinglePoint == {"updateGeometryPos", "updateSinglePosGeometry"}

\* the x and y differences of segment i of shape
Dx(shape, i) == X(shape[i + 1]) - X(shape[i])

Dy(shape, i) == Y(shape[i + 1]) - Y(shape[i])

\* C1 as claimed: after any sequence of Geometry operations,
\* |rotations| = |lengths| = max(0, |shape| - 1) (read for objects whose arrays the
\* class itself has filled, that is, not for the arrays handed to the array constructor).
C1_SizesAlwaysAgree ==
    baseOp /= "GeometryCaches" =>
        /\ Len(myShapeRotations) = Len(myShapeLengths)
        /\ Len(myShapeLengths) = Max(0, Len(myShape) - 1)

\* C1 as amended: after the default and the polyline constructor, updateGeometry(shape)
\* and the two range variants, and after any scaleGeometry calls that follow them,
\* |rotations| = |lengths| = max(0, |shape| - 1); after updateGeometry(shape,
\* posOverShape, lateralOffset) and updateSinglePosGeometry (and scaleGeometry calls
\* that follow) the geometry holds one point, one rotation and no length; the array
\* constructor stores arrays of the sizes it is given.
C1_CacheSizes ==
    /\ baseOp \in Recomputing \cup {"Geometry"} =>
          /\ Len(myShapeRotations) = Len(myShapeLengths)
          /\ Len(myShapeLengths) = Max(0, Len(myShape) - 1)
    /\ baseOp \in SinglePoint =>
          /\ Len(myShape) = 1
          /\ Len(myShapeRotations) = 1
          /\ Len(myShapeLengths) = 0
    /\ baseOp = "GeometryCaches" =>
          /\ Len(myShapeRotations) = Len(scaleBase.rotations)
          /\ Len(myShapeLengths) = Len(scaleBase.lengths)

\* a range variant has left three points and two cached segments, and the geometry
\* has been scaled since
C1_Witness ==
    /\ baseOp = "updateGeometryOffsets"
    /\ Len(myShape) = 3
    /\ Len(myShapeRotations) = 2
    /\ Len(scaleFactors) = 1

\* the caches describe the segments of the stored shape
CachesMatchShape ==
    \A i \in 1..(Len(myShape) - 1) :
        /\ i \in DOMAIN myShapeLengths
        /\ i \in DOMAIN myShapeRotations
        /\ myShapeLengths[i] = distanceTo2D(myShape[i], myShape[i + 1])
        /\ myShapeRotations[i] = Atan2(Dx(myShape, i), -Dy(myShape, i))

\* C2 as claimed: after every updateGeometry variant and after scaleGeometry with any
\* factor, every cached length is the 2D distance and every cached rotation the
\* bearing of its segment of the stored shape.
C2_NoStaleCache ==
    baseOp \in Recomputing \cup {"updateGeometryPos"} => CachesMatchShape

\* C2 as amended: the polyline constructor, updateGeometry(shape) and the two range
\* variants recompute both caches from the stored shape, so that right after them
\* every cached length and rotation is that of its segment; scaleGeometry does not
\* recompute: it multiplies the cached lengths by the factor and keeps the rotations,
\* so that after a negative factor no cached length is positive.
C2_CachesFresh ==
    /\ (baseOp \in Recomputing /\ scaleFactors = << >>) =>
          /\ Len(myShapeRotations) = Max(0, Len(myShape) - 1)
          /\ Len(myShapeLengths) = Max(0, Len(myShape) - 1)
          /\ CachesMatchShape
    /\ (baseOp \in Recomputing /\ Len(scaleFactors) = 1 /\ scaleFactors[1].num < 0) =>
          /\ myShapeRotations = scaleBase.rotations
          /\ \A i \in 1..Len(myShapeLengths) : myShapeLengths[i].sgn <= 0

\* the trimming variant has left three points and the geometry was then scaled by -1
C2_Witness ==
    /\ baseOp = "updateGeometryTrim"
    /\ Len(myShape) = 3
    /\ scaleFactors = <<Ratio(-1, 1)>>
    /\ myShapeLengths[1].sgn < 0

\* C3: Geometry(P) and updateGeometry(P) store P and yield rotations and lengths of
\* length max(0, |P| - 1) with rotations[i] = atan2(dx, -dy) in degrees and
\* lengths[i] = sqrt(dx^2 + dy^2), dx and dy the differences from P[i] to P[i+1];
\* z is ignored.
C3_ShapeCaches ==
    (baseOp \in {"GeometryShape", "updateGeometry"} /\ scaleFactors = << >>)
    => /\ myShape = argShape
       /\ Len(myShapeRotations) = Max(0, Len(argShape) - 1)
       /\ Len(myShapeLengths) = Max(0, Len(argShape) - 1)
       /\ \A i \in 1..(Len(argShape) - 1) :
            /\ myShapeRotations[i] = Atan2(Dx(argShape, i), -Dy(argShape, i))
            /\ myShapeLengths[i] =
                 Root(Dx(argShape, i) * Dx(argShape, i) + Dy(argShape, i) * Dy(argShape, i))

\* updateGeometry was given three points, two of them at different heights
C3_Witness ==
    /\ baseOp = "updateGeometry"
    /\ scaleFactors = << >>
    /\ argShape = <<P00, P04, P30>>
    /\ Len(myShapeLengths) = 2

\* the segments of a polyline the caches were computed from
FreshSegments ==
    IF baseOp \in {"GeometryShape", "updateGeometry"} /\ scaleFactors = << >>
    THEN 1..(Len(myShape) - 1) ELSE {}

\* C4 as claimed: a segment along +Y has rotation 0, +X gives 90, -Y gives 180 and -X
\* gives -90; Geometry({(0,0),(0,10)}) has rotations = [0] and lengths = [10].
C4_PlusYIsZero ==
    /\ \A i \in FreshSegments :
          LET dx == Dx(myShape, i)
              dy == Dy(myShape, i)
              deg == Degrees(myShapeRotations[i])
          IN  /\ (dx = 0 /\ dy > 0) => deg = 0
              /\ (dx > 0 /\ dy = 0) => deg = 90
              /\ (dx = 0 /\ dy < 0) => deg \in {180, -180}
              /\ (dx < 0 /\ dy = 0) => deg \in {-90, 270}
    /\ (FreshSegments /= {} /\ myShape = ExamplePath) =>
          /\ Degrees(myShapeRotations[1]) = 0
          /\ myShapeLengths = <<Real(10)>>

\* C4 as amended: the rotation is atan2(dx, -dy) in degrees, so a segment along -Y has
\* rotation 0, +X gives 90, +Y gives 180 and -X gives -90;
\* Geometry({(0,0),(0,10)}) has rotations = [180] and lengths = [10].
C4_MinusYIsZero ==
    /\ \A i \in FreshSegments :
          LET dx == Dx(myShape, i)
              dy == Dy(myShape, i)
              deg == Degrees(myShapeRotations[i])
          IN  /\ (dx = 0 /\ dy < 0) => deg = 0
              /\ (dx > 0 /\ dy = 0) => deg = 90
              /\ (dx = 0 /\ dy > 0) => deg = 180
              /\ (dx < 0 /\ dy = 0) => deg = -90
    /\ (FreshSegments /= {} /\ myShape = ExamplePath) =>
          /\ Degrees(myShapeRotations[1]) = 180
          /\ myShapeLengths = <<Real(10)>>

\* the documented example has been constructed
C4_Witness ==
    /\ baseOp = "GeometryShape"
    /\ scaleFactors = << >>
    /\ myShape = ExamplePath
    /\ Len(myShapeRotations) = 1

\* the offsets the last operation handed to getSubpart2D, when it was a range variant
\* called with the recorded arguments
Extracted(op) == baseOp = op /\ scaleFactors = << >> /\ subpart.called

\* C5: in both range variants, a call made with startOffset > endOffset hands
\* getSubpart2D a pair of offsets with end >= start + POSITION_EPS, whatever the inputs
\* (read for paths at least POSITION_EPS long).
C5_EndAfterStart ==
    ((Extracted("updateGeometryOffsets") \/ Extracted("updateGeometryTrim"))
     /\ subpart.len >= POSITION_EPS
     /\ argOffsets[1] > argOffsets[2])
    => subpart.end >= subpart.begin + POSITION_EPS

\* C6: in updateGeometry(shape, startOffset, endOffset, lateralOffset), a negative
\* startOffset makes the window [0, length], a startOffset beyond length - POSITION_EPS
\* becomes length - POSITION_EPS and an endOffset beyond length becomes length, so
\* that the start handed to getSubpart2D lies in [0, length - POSITION_EPS] and the end
\* never exceeds length (read for paths at least POSITION_EPS long).
C6_OffsetsClamped ==
    (Extracted("updateGeometryOffsets") /\ subpart.len >= POSITION_EPS)
    => /\ argOffsets[1] < 0 => (subpart.begin = 0 /\ subpart.end = subpart.len)
       /\ argOffsets[1] > subpart.len - POSITION_EPS =>
             subpart.begin = subpart.len - POSITION_EPS
       /\ subpart.begin >= 0
       /\ subpart.begin <= subpart.len - POSITION_EPS
       /\ subpart.end <= subpart.len

\* C7: in updateGeometry(shape, beginTrim, endTrim, extraFirst, extraLast) on a path of
\* 2D length >= POSITION_EPS, when a bound differs from -1 the window handed to
\* getSubpart2D has 0 <= begin <= length - POSITION_EPS, end <= length and
\* end - begin >= POSITION_EPS; when both bounds are -1 nothing is trimmed and the
\* stored shape is the given polyline.
C7_TrimWindow ==
    (baseOp = "updateGeometryTrim" /\ scaleFactors = << >>
     /\ length2D(argShape) >= POSITION_EPS)
    => IF argOffsets /= <<Unset, Unset>>
       THEN /\ subpart.called
            /\ subpart.begin >= 0
            /\ subpart.begin <= subpart.len - POSITION_EPS
            /\ subpart.end <= subpart.len
            /\ subpart.end - subpart.begin >= POSITION_EPS
       ELSE /\ ~subpart.called
            /\ myShape = argShape

\* the lengths l after scaleGeometry has been called with each of factors in turn
RECURSIVE ScaledBy(_, _)
ScaledBy(l, factors) ==
    IF factors = << >> THEN l
    ELSE ScaledBy([i \in 1..Len(l) |-> MulLength(l[i], Head(factors))], Tail(factors))

\* the product of the factors j and k is 1
Inverse(j, k) == j.num * k.num = j.den * k.den /\ j.num /= 0

\* C8: scaleGeometry(k) multiplies every cached length by k and leaves the rotations
\* as they are; scaleGeometry(k) followed by scaleGeometry(1/k), k /= 0, restores the
\* cached lengths, and any sequence of scaleGeometry calls leaves the rotations equal
\* to what they were before it.
C8_ScaleLengths ==
    /\ myShapeRotations = scaleBase.rotations
    /\ myShapeLengths = ScaledBy(scaleBase.lengths, scaleFactors)
    /\ (Len(scaleFactors) = 2 /\ Inverse(scaleFactors[1], scaleFactors[2])) =>
          myShapeLengths = scaleBase.lengths

\* a geometry of two segments has been scaled by 2 and then by 1/2
C8_Witness ==
    /\ scaleFactors = <<Ratio(2, 1), Ratio(1, 2)>>
    /\ Len(myShapeLengths) = 2
    /\ myShapeLengths[1].sq > 0
    /\ Len(myShapeRotations) = 2

---------------------------------------------------------------------------
(* DottedGeometryColor: the properties *)

\* the first and the second colour of a recognized type
TypeColors(type) ==
    CASE type = "INSPECT" ->
           <<mySettings.firstInspectedColor, mySettings.secondInspectedColor>>
      [] type = "FRONT" -> <<mySettings.firstFrontColor, mySettings.secondFrontColor>>
      [] type = "GREEN" -> <<GREEN, changedBrightness(GREEN, -30)>>
      [] type = "MAGENTA" -> <<MAGENTA, changedBrightness(MAGENTA, -30)>>

\* C9: for a recognized type whose two colours differ, two getColor calls in a row
\* with that type (no changeColor or reset in between) never return the same colour,
\* and the colours of n such calls alternate between the type's first and second colour.
C9_Alternates ==
    (/\ called.op = "getColor"
     /\ called.type \in RecognizedTypes
     /\ TypeColors(called.type)[1] /= TypeColors(called.type)[2])
    => \A i \in 1..Len(run) :
          /\ run[i] \in {TypeColors(called.type)[1], TypeColors(called.type)[2]}
          /\ i < Len(run) => run[i] /= run[i + 1]
          /\ (i < Len(run) /\ run[i] = TypeColors(called.type)[1]) =>
                run[i + 1] = TypeColors(called.type)[2]

\* MaxRun getColor(GREEN) calls have been made in a row, the first of them with the
\* flag cleared
C9_Witness ==
    /\ called.op = "getColor"
    /\ called.type = "GREEN"
    /\ Len(run) = MaxRun
    /\ run[1] = changedBrightness(GREEN, -30)
    /\ run[2] = GREEN

\* C10: getColor with an unrecognized type returns black and leaves the flag as it
\* was; the calls with an unrecognized type put anywhere into a sequence of getColor,
\* changeColor and reset calls change the colour of no call with a recognized type.
C10_UnrecognizedIsFrame ==
    /\ (called.op = "getColor" /\ called.type \notin RecognizedTypes) =>
          (called.color = BLACK /\ myColorFlag = called.flagBefore)
    /\ myColorFlag = ref.flag
    /\ (called.op = "getColor" /\ called.type \in RecognizedTypes) =>
          called.color = ref.color

\* a call with an unrecognized type has been made, and the latest call, with a
\* recognized type, has returned that type's first colour
C10_Witness ==
    /\ ref.spared
    /\ called.op = "getColor"
    /\ called.type = "MAGENTA"
    /\ called.color = MAGENTA
    /\ Len(run) = 1
    /\ myColorFlag = FALSE

\* the colour the next getColor(type) would return
NextColor(type) == getColor(mySettings, myColorFlag, type).color

\* the colour getColor(type) would have returned before the last operation
ColorBefore(type) == getColor(mySettings, called.flagBefore, type).color

\* the other colour of the pair of type
OtherColor(type, color) ==
    IF color = TypeColors(type)[1] THEN TypeColors(type)[2] ELSE TypeColors(type)[1]

\* C11: a freshly constructed alternator is in the initial state, in which the next
\* getColor of a recognized type returns the type's first colour; reset() returns to
\* that state from any state; changeColor() flips the state once, so that the next
\* recognized getColor returns the other colour of the pair than it would have, and
\* two changeColor() calls in a row leave the state as it was.
C11_ResetAndChange ==
    /\ called.op \in {"DottedGeometryColor", "reset"} =>
          /\ myColorFlag = TRUE
          /\ \A type \in RecognizedTypes : NextColor(type) = TypeColors(type)[1]
    /\ called.op = "changeColor" =>
          /\ myColorFlag = ~called.flagBefore
          /\ \A type \in RecognizedTypes :
                NextColor(type) = OtherColor(type, ColorBefore(type))
    /\ (called.op = "changeColor" /\ earlier.op = "changeColor") =>
          myColorFlag = earlier.flagBefore

\* reset() has been called on an alternator whose flag two changeColor() calls in a
\* row had left cleared
C11_Witness ==
    /\ called.op = "reset"
    /\ earlier.op = "changeColor"
    /\ called.flagBefore = FALSE
    /\ earlier.flagBefore = TRUE
    /\ myColorFlag = TRUE

---------------------------------------------------------------------------
(* DottedGeometry: the properties *)

\* the step of C12 for a path of 2D length len and a dash length dash: dash up to 500 m,
\* len / 250 beyond
StepByLength(len, dash) ==
    IF len > 20 * MAXIMUM_DOTTEDGEOMETRYLENGTH
    THEN Ratio(2 * len, MAXIMUM_DOTTEDGEOMETRYLENGTH)
    ELSE Ratio(dash, 1)

\* the two ratios are the same number
SameRatio(a, b) == a.num * b.den = b.num * a.den

\* C12: whichever of the three operations built the DottedGeometry from a path, the step
\* it resampled with is the dash length of the settings when the 2D length of the path
\* (closed, where closing was asked for) is at most 500 m, and that length / 250 when it
\* is more
C12_StepByLength ==
    built.resampled => SameRatio(built.step, StepByLength(built.len, built.dash))

\* the number of primitives of one segment: max(0, |segment.shape| - 1)
Pairs(segment) == IF Len(segment.shape) > 1 THEN Len(segment.shape) - 1 ELSE 0

\* the number of primitives of the segments before the j-th
RECURSIVE PairsBefore(_, _)
PairsBefore(segments, j) ==
    IF j <= 1 THEN 0 ELSE PairsBefore(segments, j - 1) + Pairs(segments[j - 1])

\* the colour of the k-th primitive of a draw of a recognized type that began with flag
ColorAt(type, flag, k) ==
    IF flag = (k % 2 = 1) THEN TypeColors(type)[1] ELSE TypeColors(type)[2]

\* C19: the primitives of the last draw are those of the sub-point pairs of the segments,
\* segment after segment in stored order and pair after pair within a segment, the sum of
\* max(0, |segment.shape| - 1) of them; for a recognized type their colours alternate from
\* the first to the last, across the segments, beginning with the colour of the flag the
\* alternator had, and the flag afterwards differs from it exactly when their number is
\* odd; each has customWidth when that is positive and the width of the geometry otherwise
C19_DrawInOrder ==
    drawn.called =>
        LET segments == myDottedGeometrySegments
            count == PairsBefore(segments, Len(segments) + 1)
        IN  /\ Len(drawn.primitives) = count
            /\ \A j \in 1..Len(segments) : \A i \in 1..Pairs(segments[j]) :
                  LET p == drawn.primitives[PairsBefore(segments, j) + i]
                  IN  /\ p.segment = j /\ p.point = i
                      /\ p.rotation = segments[j].rotations[i]
                      /\ p.length = segments[j].lengths[i]
            /\ \A k \in 1..count :
                  drawn.primitives[k].width =
                      IF drawn.customWidth > 0 THEN drawn.customWidth ELSE myWidth
            /\ drawn.type \in RecognizedTypes =>
                  /\ \A k \in 1..count :
                        drawn.primitives[k].color = ColorAt(drawn.type, drawn.flagBefore, k)
                  /\ \A k \in 1..(count - 1) :
                        drawn.primitives[k].color /= drawn.primitives[k + 1].color
                  /\ (drawn.flagAfter /= drawn.flagBefore) <=> (count % 2 = 1)

\* a draw of seven dashes over the three sides of a closed triangle, with a custom width,
\* by an alternator whose flag was false
C19_Witness ==
    /\ drawn.called /\ drawn.type = "INSPECT" /\ drawn.customWidth > 0
    /\ drawn.flagBefore = FALSE /\ drawn.flagAfter = TRUE
    /\ Len(myDottedGeometrySegments) = 3
    /\ Len(drawn.primitives) = 7
    /\ drawn.primitives[3].segment = 2
    /\ drawn.primitives[3].width /= myWidth

---------------------------------------------------------------------------
(* Geometry: the single-point updateGeometry *)

\* the arclength of C20 for a position over a shape of the given length
ClampedInto(posOverShape, shapeLength) ==
    IF posOverShape < 0 THEN 0
    ELSE IF posOverShape > shapeLength THEN shapeLength
    ELSE posOverShape

\* C20: after updateGeometry(shape, posOverShape, lateralOffset) the geometry is one
\* point, one rotation and no lengths, whatever it held before; the point is the one of
\* shape at the arclength posOverShape clamped into [0, length(shape)], moved sideways by
\* lateralOffset, and the rotation the one of shape at that arclength
C20_OnePointAtClamped ==
    baseOp = "updateGeometryPos" =>
        LET at == ClampedInto(argOffsets[1], length(argShape))
        IN  /\ Len(myShape) = 1
            /\ Len(myShapeRotations) = 1
            /\ Len(myShapeLengths) = 0
            /\ atOffset.called /\ atOffset.pos = at
            /\ \E lateralOffset \in LateralInputs :
                  myShape = <<positionAtOffset(argShape, at, lateralOffset)>>
            /\ myShapeRotations = <<rotationDegreeAtOffset(argShape, at)>>

\* a position beyond the end of a path of two pieces: the point is the last one of the
\* path and the rotation that of its last piece
C20_Witness ==
    /\ baseOp = "updateGeometryPos"
    /\ Len(argShape) = 3
    /\ argOffsets[1] > length(argShape)
    /\ myShape = <<argShape[3]>>
    /\ myShapeRotations = <<calculateRotation(argShape[2], argShape[3])>>

---------------------------------------------------------------------------
(* Lane2laneConnection: the properties *)

\* C13: before the first updateLane2laneConnection() exist is false for every lane; from
\* an update on (until the next) it is true for exactly the lanes the outgoing edges of
\* the junction had at that update, so a lane that was a key before the update and is
\* not among them is a key no more
C13_KeysOfLatestUpdate ==
    /\ ~updated.called => \A lane \in Lanes : ~exist(myConnectionsMap, lane)
    /\ updated.called =>
          /\ \A lane \in Lanes : exist(myConnectionsMap, lane) <=> lane \in updated.lanes
          /\ \A lane \in updated.keysBefore \ updated.lanes : ~exist(myConnectionsMap, lane)

\* the junction had the lanes a and b at one update and b and c at the next: a is
\* dropped, c is new
C13_Witness ==
    /\ updated.called
    /\ updated.keysBefore = {"a", "b"}
    /\ updated.lanes = {"b", "c"}
    /\ ~exist(myConnectionsMap, "a")
    /\ exist(myConnectionsMap, "c")
    /\ outgoingEdges = <<<<"b">>, <<"c">>>>

---------------------------------------------------------------------------
(* The circle table: the properties *)

\* the size of the populated table
TableSize == 360 * CIRCLE_RESOLUTION + 1

\* the lookups remembered that were made with the table populated
Populated == {k \in DOMAIN looked : looked[k].size = TableSize}

\* the angles a and b are the same number of degrees
SameAngle(a, b) == a.num * b.den = b.num * a.den

\* the angle b is the angle a plus 360 degrees
TurnFurther(a, b) == b.num * a.den = a.num * b.den + 360 * a.den * b.den

\* C15: with the table populated, two angleLookup calls whose angles are 360 degrees apart
\* return the same index, and so do two calls with the same angle, whatever was called
\* in between; the index of an angle and of that angle plus 360 degrees are the same for
\* every angle of the inputs
C15_PeriodicAndStable ==
    /\ \A i \in Populated : \A j \in Populated :
          /\ TurnFurther(looked[i].angle, looked[j].angle) =>
                looked[i].index = looked[j].index
          /\ SameAngle(looked[i].angle, looked[j].angle) =>
                looked[i].index = looked[j].index
    /\ Len(myCircleCoords) = TableSize =>
          \A x \in AngleInputs :
              /\ angleLookup(myCircleCoords, x) =
                     angleLookup(myCircleCoords, Ratio(x.num + 360 * x.den, x.den))
              /\ \A k \in Populated :
                    SameAngle(looked[k].angle, x) =>
                        looked[k].index = angleLookup(myCircleCoords, x)

\* -180.05 degrees, halfway between two entries, and then 179.95 degrees: both 1800
C15_Witness ==
    /\ Len(looked) = 2 /\ Populated = {1, 2}
    /\ looked[1].angle = Ratio(-3601, 20)
    /\ looked[2].angle = Ratio(3599, 20)
    /\ looked[1].index = 1800
    /\ looked[2].index = 1800

\* n is the integer nearest to 10 times the angle, the upper one of two equally near
NearestTenth(n, angleDeg) ==
    /\ 2 * n * angleDeg.den - 2 * CIRCLE_RESOLUTION * angleDeg.num > -angleDeg.den
    /\ 2 * n * angleDeg.den - 2 * CIRCLE_RESOLUTION * angleDeg.num <= angleDeg.den

\* C16: with the table populated, the index angleLookup returns is the integer nearest to
\* 10 times the angle, reduced modulo 3600 into 0..3599; it is an index of the table, and
\* the assertion index >= 0 holds
C16_NearestWrapped ==
    \A k \in Populated :
        LET x == looked[k].angle
            below == (CIRCLE_RESOLUTION * x.num) \div x.den
        IN  /\ \E n \in {below, below + 1} :
                  /\ NearestTenth(n, x)
                  /\ looked[k].index = n % (TableSize - 1)
            /\ looked[k].index >= 0
            /\ looked[k].index < TableSize - 1
            /\ looked[k].index + 1 \in DOMAIN myCircleCoords
            /\ angleLookupAssertion(myCircleCoords, x)

\* 359.95 degrees rounds up to 3600 and -360 degrees is -3600: both wrap to 0
C16_Witness ==
    /\ Len(looked) = 2 /\ Populated = {1, 2}
    /\ looked[1].angle = Ratio(7199, 20)
    /\ looked[2].angle = Ratio(-7200, 20)
    /\ looked[1].index = 0
    /\ looked[2].index = 0

\* C17: the circle returned for steps >= 1 has steps + 1 points; point i (from 0) is the
\* entry of the table at angleLookup(i * 360 / steps), scaled by the radius and moved by
\* the centre; the last point is the first; the circle of centre (0, 0), radius 5 m and
\* 4 steps uses the entries 0, 900, 1800, 2700 and 0, the corners (0, 5), (5, 0), (0, -5),
\* (-5, 0) and (0, 5)
C17_ClosedCircle ==
    circle.called =>
        /\ Len(circle.vertexCircle) = circle.steps + 1
        /\ Len(circle.lookups) = circle.steps + 1
        /\ \A i \in 0..circle.steps :
              /\ circle.lookups[i + 1].index =
                     angleLookup(myCircleCoords, Ratio(i * 360, circle.steps))
              /\ circle.vertexCircle[i + 1] =
                     [tenths |-> myCircleCoords[circle.lookups[i + 1].index + 1],
                      width |-> circle.width, pos |-> circle.pos]
        /\ circle.vertexCircle[circle.steps + 1] = circle.vertexCircle[1]
        /\ (circle.pos = <<0, 0>> /\ circle.width = 100 /\ circle.steps = 4) =>
              /\ [k \in 1..5 |-> circle.lookups[k].index] = <<0, 900, 1800, 2700, 0>>
              /\ [k \in 1..5 |-> cornerPosition(circle.vertexCircle[k])] =
                     <<<<0, 100>>, <<100, 0>>, <<0, -100>>, <<-100, 0>>, <<0, 100>>>>

\* the circle of the example, asked for with the table populated already
C17_Witness ==
    /\ circle.called /\ circle.op = "getVertexCircleAroundPosition"
    /\ circle.pos = <<0, 0>> /\ circle.width = 100 /\ circle.steps = 4
    /\ circle.sizeBefore = TableSize
    /\ Len(circle.vertexCircle) = 5

\* the table has its 3601 entries, entry i (from 0) the point of i tenths of a degree
FullTable ==
    /\ Len(myCircleCoords) = TableSize
    /\ \A i \in 0..(TableSize - 1) : myCircleCoords[i + 1] = CirclePoint(i)

\* C18: the table is empty until the first getVertexCircleAroundPosition call (made
\* directly or by drawDottedContourCircle) and has its 3601 entries from then on; no
\* later call changes it
C18_BuiltOnce ==
    /\ [](~circle.called => myCircleCoords = << >>)
    /\ [](circle.called => FullTable /\ circle.sizeBefore \in {0, TableSize})
    /\ [][myCircleCoords /= << >> => myCircleCoords' = myCircleCoords]_vars

\* a contour circle drawn, and an angle looked up, after the call that filled the table
C18_Witness ==
    /\ circle.called /\ circle.op = "drawDottedContourCircle"
    /\ circle.sizeBefore = TableSize
    /\ Len(looked) = 2 /\ looked[2].angle = Ratio(7199, 20)
    /\ FullTable

---------------------------------------------------------------------------
(* adjustStartPosGeometricPath: the properties *)

\* C22: after adjustStartPosGeometricPath with both positions set on one lane that is
\* not null and at least 2 * POSITION_EPS long, POSITION_EPS <= startPos < endPos <=
\* length - POSITION_EPS; a position that is unset, or whose lane is null, is left as
\* it was
C22_StartBeforeEnd ==
    adjusted.called =>
        /\ ( /\ adjusted.startLane /= "null" /\ adjusted.startLane = adjusted.endLane
             /\ length(pathLaneShape(adjusted.startLane)) >= 2 * POSITION_EPS
             /\ adjusted.startPos /= Unset /\ adjusted.endPos /= Unset )
           => /\ POSITION_EPS <= adjusted.newStartPos
              /\ adjusted.newStartPos < adjusted.newEndPos
              /\ adjusted.newEndPos
                     <= length(pathLaneShape(adjusted.startLane)) - POSITION_EPS
        /\ (adjusted.startPos = Unset \/ adjusted.startLane = "null")
           => adjusted.newStartPos = adjusted.startPos
        /\ (adjusted.endPos = Unset \/ adjusted.endLane = "null")
           => adjusted.newEndPos = adjusted.endPos

---------------------------------------------------------------------------
(* The extremes: the properties *)

\* both geometries have segments, the extreme is asked for, and the sub-shapes it joins
\* have points
FirstExtremeDue ==
    /\ Len(extremes.top.segments) > 0 /\ Len(extremes.bot.segments) > 0
    /\ extremes.drawFirstExtrem
    /\ Len(extremes.top.segments[1].shape) > 0
    /\ Len(extremes.bot.segments[1].shape) > 0

LastExtremeDue ==
    /\ Len(extremes.top.segments) > 0 /\ Len(extremes.bot.segments) > 0
    /\ extremes.drawLastExtrem
    /\ Len(extremes.top.segments[Len(extremes.top.segments)].shape) > 0
    /\ Len(extremes.bot.segments[Len(extremes.bot.segments)].shape) > 0

\* the last point of the last segment of d
BackPoint(d) ==
    LET back == d.segments[Len(d.segments)].shape IN back[Len(back)]

\* C21: the DottedGeometry built from a top and a bottom one has no segment if either has
\* none; else it has the first connector, from the first point of top's first segment to
\* the first point of bottom's, exactly when drawFirstExtrem holds and both those
\* sub-shapes have points, and the last connector, from the last point of top's last
\* segment to the last point of bottom's, exactly when drawLastExtrem holds and both
\* those sub-shapes have points; the first comes before the last, the first has offset
\* -1 and the last offset +1
C21_Extremes ==
    extremes.called =>
        LET segments == extremes.built.segments
            pushed == extremes.pushed
            n == (IF FirstExtremeDue THEN 1 ELSE 0) + (IF LastExtremeDue THEN 1 ELSE 0)
        IN  /\ Len(segments) = n
            /\ Len(pushed) = n
            /\ (Len(extremes.top.segments) = 0 \/ Len(extremes.bot.segments) = 0) => n = 0
            /\ FirstExtremeDue =>
                  /\ pushed[1].shape = <<extremes.top.segments[1].shape[1],
                                         extremes.bot.segments[1].shape[1]>>
                  /\ segments[1].offset = -1
            /\ LastExtremeDue =>
                  /\ pushed[n].shape = <<BackPoint(extremes.top), BackPoint(extremes.bot)>>
                  /\ segments[n].offset = 1
            /\ \A j \in 1..n :
                  Len(segments[j].shape) > 0 =>
                      /\ segments[j].shape[1] = pushed[j].shape[1]
                      /\ segments[j].shape[Len(segments[j].shape)] = pushed[j].shape[2]

\* both connectors, between sides of two pieces that were moved apart
C21_Witness ==
    /\ extremes.called
    /\ Len(extremes.top.segments) = 2 /\ Len(extremes.bot.segments) = 2
    /\ Len(extremes.built.segments) = 2
    /\ extremes.built.segments[1].offset = -1
    /\ extremes.built.segments[2].offset = 1
    /\ Len(extremes.built.segments[1].shape) = 2
    /\ extremes.top.segments[1].shape[1] /= extremes.bot.segments[1].shape[1]

---------------------------------------------------------------------------
(* The dotted-contour draw passes: the properties *)

\* C23: in one draw pass over a path (drawDottedContourShape, or drawDottedContourEdge
\* for an edge with several lanes) of a recognized type, the top run and the bottom run
\* both begin with the first colour of the type, however many dashes the top run has,
\* and the first dash of the extremes has the colour of the last dash of the bottom
\* run, or the second colour of the type if the bottom run has no dashes: the alternator
\* the extremes begin with gives the first colour next exactly when the bottom run has
\* an odd number of dashes.
C23_OnePass ==
    (pass.called /\ pass.type \in RecognizedTypes) =>
        /\ pass.flags[1] = TRUE /\ pass.flags[2] = TRUE
        /\ pass.flags[3] = (Len(pass.bot) % 2 = 1)
        /\ pass.top /= << >> => pass.top[1].color = TypeColors(pass.type)[1]
        /\ pass.bot /= << >> => pass.bot[1].color = TypeColors(pass.type)[1]
        /\ pass.extremes /= << >> =>
               pass.extremes[1].color =
                   IF pass.bot /= << >> THEN pass.bot[Len(pass.bot)].color
                   ELSE TypeColors(pass.type)[2]

\* a pass over an edge whose top run has three dashes and whose bottom run has two: the
\* bottom run begins with the first colour again, and the extremes with the second
C23_Witness ==
    /\ pass.called /\ pass.op = "drawDottedContourEdge" /\ pass.type = "INSPECT"
    /\ Len(pass.top) = 3 /\ Len(pass.bot) = 2 /\ Len(pass.extremes) > 0
    /\ pass.top[3].color = TypeColors("INSPECT")[1]
    /\ pass.bot[1].color = TypeColors("INSPECT")[1]
    /\ pass.extremes[1].color = TypeColors("INSPECT")[2]
    /\ TypeColors("INSPECT")[1] /= TypeColors("INSPECT")[2]

===========================================================================
